---- MODULE Spec2Model ----
(***************************************************************************)
(* A model of pyxml: the tree builder (pyxml/builder.py), the element tree *)
(* edit methods (pyxml/element.py), the byte reader with pushback          *)
(* (pyxml/_tokenize.py), the XML lexer and parser (pyxml/lexer.py,         *)
(* pyxml/parser.py), the XPath engine (pyxml/xpath), and the escaping and  *)
(* the serializer (pyxml/escape.py, pyxml/etree.py).                       *)
(*                                                                         *)
(* Twelve specifications share the module; each drives one component and  *)
(* leaves the variables of the others at their initial values:             *)
(*   Spec         the tree builder, its insert_* switches off              *)
(*   SpecInline   the tree builder, for every choice of its switches       *)
(*   SpecRooted   the tree builder over a root element the caller made     *)
(*   SpecElement  the Element edit methods                                 *)
(*   SpecReader   BaseLexer.read_byte / unread and the XPath path lexer's   *)
(*                look-ahead and re-read                                   *)
(*   SpecLexer    Lexer.next over special elements, instructions, comments *)
(*   SpecParser   Parser.feed / close over small documents                 *)
(*   SpecXPath    iter_xpath over a document, then find, findall,          *)
(*                iterfind and findtext                                    *)
(*   SpecEscape   escape_cdata / escape_attrib, then unescape              *)
(*   SpecHtml     html.fromstring, html.tostring and html.fromstring again *)
(*   SpecSource   BaseParser.set_stream, feed and readfrom, then close     *)
(*   SpecScan     BaseLexer.read_byte / unread and Lexer.look_ahead        *)
(***************************************************************************)
EXTENDS Integers, Sequences, FiniteSets, TLC

VARIABLES
    \* ---- TreeBuilder (pyxml/builder.py) ----
    elems,            \* the heap of Element objects, by identity 1..Len(elems)
    root,             \* TreeBuilder.root (0 is None)
    last,             \* TreeBuilder.last (0 is None)
    tree,             \* TreeBuilder.tree: the stack of open elements
    text,             \* TreeBuilder.text: the pending chunks
    tail,             \* TreeBuilder.tail
    final,            \* TreeBuilder.final
    fix_broken,       \* TreeBuilder.fix_broken
    insert_comments,  \* TreeBuilder.insert_comments
    insert_declares,  \* TreeBuilder.insert_declares
    insert_pis,       \* TreeBuilder.insert_pis
    err,              \* the exception the last call raised ("none" if it returned)
    ret,              \* what the last close() returned (0: nothing returned)
    op,               \* the last call: [name, tag]
    ndata,            \* the number of data events so far
    scenario,         \* how many events of scenario S3 the run has followed (-1: it left it)
    \* ---- Element edit methods (pyxml/element.py) ----
    nodes,            \* the Element objects being edited: children and parent
    eop,              \* the last edit method called
    \* ---- BaseLexer byte reader (pyxml/_tokenize.py) ----
    stream,           \* the bytes the stream iterator has not yielded yet
    buffer,           \* BaseLexer.buffer: the pushback buffer
    lineno,           \* BaseLexer.lineno
    position,         \* BaseLexer.position
    input,            \* the whole input the stream was created over
    consumed,         \* the bytes handed to the lexer and not given back
    char,             \* what the last read_byte returned ("" is None)
    rerr,             \* the exception the last reader call raised
    rop,              \* the last reader call
    \* ---- Lexer and Parser (pyxml/lexer.py, pyxml/parser.py) ----
    lexer,            \* the Lexer object: the reader's fields, last_token, last_tag
    results,          \* the Results lexer.next() has returned so far
    perr,             \* the exception that ended the parse, with ParserError's fields
    parser,           \* where the Parser stands: in next or in parse_tag, and the tag
    lop,              \* the last lexer / parser call
    \* ---- XPath (pyxml/xpath) ----
    xpath,            \* the path, as bytes
    context,          \* the element the path is evaluated from
    xlexer,           \* the XLexer of iter_xpath
    elements,         \* iter_xpath's elements
    values,           \* iter_xpath's values (Optional[List[Any]])
    xret,             \* what iter_xpath returned or raised
    xop,              \* where iter_xpath stands
    calls,            \* what find, findall, iterfind and findtext gave
    \* ---- escape and serializer (pyxml/escape.py, pyxml/etree.py) ----
    plain,            \* the str given to escape_attrib
    escaped,          \* what escape_attrib returned
    unescaped,        \* what unescape returned or raised
    first,            \* the tree of the first parse of a round trip
    output,           \* what tostring returned
    content,          \* the str given to the first html.fromstring
    given,            \* the parser given to html.fromstring
    sop,              \* the last escape / serializer call
    \* ---- the sources of a parser (pyxml/parser.py) ----
    pstream,          \* BaseParser.stream
    pbuffer,          \* BaseParser.buffer
    accepted,         \* the calls that returned, with the bytes they were given
    parsed,           \* the bytes of the stream the lexer is made over in close()
    srcerr,           \* the exception of the last call
    pop               \* the last call on the parser's sources

bvars == <<elems, root, last, tree, text, tail, final, fix_broken,
           insert_comments, insert_declares, insert_pis, err, ret, op,
           ndata, scenario>>
evars == <<nodes, eop>>
rvars == <<stream, buffer, lineno, position, input, consumed, char, rerr, rop>>
lvars == <<lexer, results, perr, parser, lop>>
xvars == <<xpath, context, xlexer, elements, values, xret, xop, calls>>
svars == <<plain, escaped, unescaped, first, output, content, given, sop>>
pvars == <<pstream, pbuffer, accepted, parsed, srcerr, pop>>
vars  == <<bvars, evars, rvars, lvars, xvars, svars, pvars>>

(***************************************************************************)
(* Bounds of the model                                                     *)
(***************************************************************************)
\* elements a builder run may create
MaxElems == 3
\* data events of a builder run
MaxData == 2
\* Element objects of an editing run
MaxNodes == 3
\* bytes of the input a reader runs over
MaxInput == 3
\* the column and line counters of a reader, which reading ahead only raises
MaxPosition == 4
MaxLineno == 2
\* bytes in the body of a script, style, comment or instruction a lexer runs over
MaxBody == 2
\* bytes of a document a parser runs over
MaxDoc == 4
\* characters of a text that is escaped
MaxText == 3
\* attribute names and values of a start tag a parser runs over
MaxAttrs == 4
\* pieces of content after the prolog of a document a parser runs over
MaxTokens == 2
\* tags and texts of a document that is parsed, serialized and parsed again
MaxPieces == 3

\* tag names of start events
Tags == {"ul", "li"}
\* tag names of end events: an end tag may also name the root a builder was
\* constructed with, or a synthetic root
EndTags == Tags \cup {"document"}
\* the text of the k-th data event, a one-character string: the builder never
\* looks into a chunk, so the chunks are told apart by their order alone
Alphabet == <<"a", "b", "c", "d", "e", "f">>
Chunk(k) == <<Alphabet[k]>>

(***************************************************************************)
(* Element (pyxml/element.py)                                              *)
(***************************************************************************)
\* Optional[str]: None, or a string (a sequence of characters)
None == [some |-> FALSE, s |-> <<>>]
Str(s) == [some |-> TRUE, s |-> s]
\* Python truthiness of an Optional[str]: None and '' are falsy
Truthy(t) == t.some /\ t.s # <<>>

\* Element.__init__
NewElement(tag) ==
    [tag |-> tag, attrib |-> <<>>, text |-> None, tail |-> None,
     children |-> <<>>, parent |-> 0]

\* the tag 'document' of a synthetic root: a builder that is driven by its own
\* events has its tags as strings, a builder that a parser drives has them as
\* the characters the parser decoded
DOCUMENT == <<"d", "o", "c", "u", "m", "e", "n", "t">>
DocumentTag == IF lop = "none" THEN "document" ELSE DOCUMENT

\* _Special.__init__: the tag is the class itself, text is the payload
NewSpecial(cls, payload) ==
    [NewElement(cls) EXCEPT !.text = Str(payload)]

\* a faulty append: the child is put first
ElemPrepend(es, p, c) ==
    [es EXCEPT ![p].children = <<c>> \o @, ![c].parent = p]

\* a faulty append: the back-reference is not set
ElemAppendNoParent(es, p, c) ==
    [es EXCEPT ![p].children = Append(@, c)]

\* Element.append on the heap es: p.append(c)
ElemAppend(es, p, c) ==
    [es EXCEPT ![p].children = Append(@, c), ![c].parent = p]

\* Element.iter(None): preorder, the children left to right
RECURSIVE IterFrom(_, _, _)
IterFrom(es, kids, i) ==
    IF i > Len(kids) THEN <<>>
    ELSE LET k == kids[i] IN
         (<<k>> \o IterFrom(es, es[k].children, 1)) \o IterFrom(es, kids, i + 1)

Iter(es, e) == <<e>> \o IterFrom(es, es[e].children, 1)

(***************************************************************************)
(* TreeBuilder (pyxml/builder.py), as operators on the builder's fields    *)
(***************************************************************************)
\* ''.join(chunks)
RECURSIVE Join(_)
Join(chunks) == IF chunks = <<>> THEN <<>> ELSE Head(chunks) \o Join(Tail(chunks))

\* `not self.data` in _flush: self.data is the bound method, which is truthy
NotSelfData == FALSE

Raise(b, e) == [b EXCEPT !.err = e]

\* a faulty self.tree[-1]: the outermost open element
Bottom(b) == b.tree[1]

\* self.tree[-1]
Top(b) == b.tree[Len(b.tree)]

\* a faulty root test: a root is never seen
NoRootAlways(b) == TRUE

\* `self.root is None` in _append and close
NoRoot(b) == b.root = 0

\* a faulty tag test: no end tag is ever a mismatch
TagNeverMismatch(e, tag) == FALSE

\* `self.last.tag != tag` in end
TagMismatch(e, tag) == e.tag # tag

\* a faulty search of the stack: the tag is never found open
OpenDeeperNever(b, tag) == FALSE

\* `any(e.tag == tag for e in self.tree)` in end
OpenDeeper(b, tag) == \E i \in 1..Len(b.tree) : b.elems[b.tree[i]].tag = tag

\* a faulty depth test: only too many open elements are noticed
TooManyOpen(b) == Len(b.tree) > final

\* `len(self.tree) != self.final` in close
NotFinal(b) == Len(b.tree) # final

\* a faulty _flush: in lenient mode the pending text is appended twice
FlushAppendsTwice(b) ==
    IF NotSelfData THEN b
    ELSE IF b.last = 0 THEN [b EXCEPT !.text = <<>>]
    ELSE LET t == Join(b.text) IN
         IF b.tail
         THEN IF Truthy(b.elems[b.last].tail)
              THEN IF fix_broken
                   THEN [b EXCEPT !.elems[b.last].tail = Str((@.s \o t) \o t)]
                   ELSE Raise(b, "BuilderError")
              ELSE [b EXCEPT !.elems[b.last].tail = Str(t), !.text = <<>>]
         ELSE IF Truthy(b.elems[b.last].text)
              THEN IF fix_broken
                   THEN [b EXCEPT !.elems[b.last].text = Str((@.s \o t) \o t)]
                   ELSE Raise(b, "BuilderError")
              ELSE [b EXCEPT !.elems[b.last].text = Str(t), !.text = <<>>]

\* a faulty _flush: the pending chunks are kept after they are assigned
FlushKeepsPending(b) ==
    IF NotSelfData THEN b
    ELSE IF b.last = 0 THEN [b EXCEPT !.text = <<>>]
    ELSE LET t == Join(b.text) IN
         IF b.tail
         THEN IF Truthy(b.elems[b.last].tail)
              THEN IF fix_broken
                   THEN [b EXCEPT !.elems[b.last].tail = Str(@.s \o t)]
                   ELSE Raise(b, "BuilderError")
              ELSE [b EXCEPT !.elems[b.last].tail = Str(t)]
         ELSE IF Truthy(b.elems[b.last].text)
              THEN IF fix_broken
                   THEN [b EXCEPT !.elems[b.last].text = Str(@.s \o t)]
                   ELSE Raise(b, "BuilderError")
              ELSE [b EXCEPT !.elems[b.last].text = Str(t)]

\* TreeBuilder._flush
Flush(b) ==
    IF NotSelfData THEN b
    ELSE IF b.last = 0 THEN [b EXCEPT !.text = <<>>]
    ELSE LET t == Join(b.text) IN
         IF b.tail
         THEN IF Truthy(b.elems[b.last].tail)
              THEN IF fix_broken
                   THEN [b EXCEPT !.elems[b.last].tail = Str(@.s \o t)]
                   ELSE Raise(b, "BuilderError")
              ELSE [b EXCEPT !.elems[b.last].tail = Str(t), !.text = <<>>]
         ELSE IF Truthy(b.elems[b.last].text)
              THEN IF fix_broken
                   THEN [b EXCEPT !.elems[b.last].text = Str(@.s \o t)]
                   ELSE Raise(b, "BuilderError")
              ELSE [b EXCEPT !.elems[b.last].text = Str(t), !.text = <<>>]

\* a faulty _append: the old root is not put under the synthetic root
BAppendDropRoot(b, elem) ==
    LET b1 == [b EXCEPT !.last = elem] IN
    IF b1.tree # <<>>
    THEN [b1 EXCEPT !.elems = ElemAppend(@, Top(b1), elem)]
    ELSE IF NoRoot(b1)
    THEN [b1 EXCEPT !.root = elem]
    ELSE IF fix_broken
    THEN LET newroot == Len(b1.elems) + 1
             es1 == Append(b1.elems,
                           [NewElement(DocumentTag) EXCEPT !.text = Str(<<"\n">>)])
             b2 == [b1 EXCEPT !.elems = es1,
                              !.root = newroot, !.tree = <<newroot>>]
         IN  [b2 EXCEPT !.elems = ElemAppend(@, Top(b2), elem)]
    ELSE Raise(b1, "BuilderError")

\* a faulty _append: the element is put under the outermost open element
BAppendUnderBottom(b, elem) ==
    LET b1 == [b EXCEPT !.last = elem] IN
    IF b1.tree # <<>>
    THEN [b1 EXCEPT !.elems = ElemAppend(@, Bottom(b1), elem)]
    ELSE IF NoRoot(b1)
    THEN [b1 EXCEPT !.root = elem]
    ELSE IF fix_broken
    THEN LET newroot == Len(b1.elems) + 1
             es1 == Append(b1.elems,
                           [NewElement(DocumentTag) EXCEPT !.text = Str(<<"\n">>)])
             b2 == [b1 EXCEPT !.elems = ElemAppend(es1, newroot, b1.root),
                              !.root = newroot, !.tree = <<newroot>>]
         IN  [b2 EXCEPT !.elems = ElemAppend(@, Top(b2), elem)]
    ELSE Raise(b1, "BuilderError")

\* TreeBuilder._append, elem being the newest object of the heap
BAppend(b, elem) ==
    LET b1 == [b EXCEPT !.last = elem] IN
    IF b1.tree # <<>>
    THEN [b1 EXCEPT !.elems = ElemAppend(@, Top(b1), elem)]
    ELSE IF NoRoot(b1)
    THEN [b1 EXCEPT !.root = elem]
    ELSE IF fix_broken
    THEN LET newroot == Len(b1.elems) + 1
             es1 == Append(b1.elems,
                           [NewElement(DocumentTag) EXCEPT !.text = Str(<<"\n">>)])
             b2 == [b1 EXCEPT !.elems = ElemAppend(es1, newroot, b1.root),
                              !.root = newroot, !.tree = <<newroot>>]
         IN  [b2 EXCEPT !.elems = ElemAppend(@, Top(b2), elem)]
    ELSE Raise(b1, "BuilderError")

\* TreeBuilder._inline
BInline(b, special) ==
    LET b1 == Flush(b) IN
    IF b1.err # "none" THEN b1
    ELSE LET elem == Len(b1.elems) + 1
             b2 == BAppend([b1 EXCEPT !.elems = Append(@, special)], elem)
         IN  IF b2.err # "none" THEN b2 ELSE [b2 EXCEPT !.tail = TRUE]

\* TreeBuilder.start: attrs is the dictionary, as the sequence of its items
BStart(b, tag, attrs) ==
    LET b1 == Flush(b) IN
    IF b1.err # "none" THEN b1
    ELSE LET elem == Len(b1.elems) + 1
             b2 == BAppend([b1 EXCEPT !.elems =
                                Append(@, [NewElement(tag) EXCEPT !.attrib = attrs])],
                           elem)
         IN  IF b2.err # "none" THEN b2
             ELSE [b2 EXCEPT !.tree = Append(@, elem), !.tail = FALSE]

\* TreeBuilder.end
RECURSIVE BEnd(_, _)
BEnd(b, tag) ==
    IF b.tree = <<>>
    THEN IF fix_broken THEN b ELSE Raise(b, "BuilderError")
    ELSE LET b1 == Flush(b) IN
         IF b1.err # "none" THEN b1
         ELSE LET top == b1.tree[Len(b1.tree)]
                  b2 == [b1 EXCEPT !.last = top,
                                   !.tree = SubSeq(@, 1, Len(@) - 1)]
              IN  IF TagMismatch(b2.elems[top], tag)
                  THEN IF ~fix_broken THEN Raise(b2, "BuilderError")
                       ELSE IF OpenDeeper(b2, tag)
                            THEN BEnd(b2, tag)
                            ELSE [b2 EXCEPT !.tail = TRUE]
                  ELSE [b2 EXCEPT !.tail = TRUE]

\* the while loop of TreeBuilder.close; self.tree[-1] of an empty list raises
RECURSIVE BCloseLoop(_)
BCloseLoop(b) ==
    IF ~NotFinal(b) THEN b
    ELSE IF b.tree = <<>> THEN Raise(b, "IndexError")
    ELSE LET b1 == BEnd(b, b.elems[Top(b)].tag) IN
         IF b1.err # "none" THEN b1 ELSE BCloseLoop(b1)

\* TreeBuilder.close
BClose(b) ==
    LET b1 == IF NotFinal(b)
              THEN IF ~fix_broken THEN Raise(b, "BuilderError") ELSE BCloseLoop(b)
              ELSE b
    IN  IF b1.err # "none" THEN b1
        ELSE IF NoRoot(b1) THEN Raise(b1, "BuilderError")
        ELSE [b1 EXCEPT !.ret = b1.root]

\* the builder's fields at the start of a call
Self == [elems |-> elems, root |-> root, last |-> last, tree |-> tree,
         text |-> text, tail |-> tail, err |-> "none", ret |-> 0]

\* Scenario S3 of the specification: the builder events of the HTML input
\* <ul><li>a<li>b</ul>, then close()
S3Events == << <<"start", "ul">>, <<"start", "li">>, <<"data", "a">>,
               <<"start", "li">>, <<"data", "b">>, <<"end", "ul">>,
               <<"close", "">> >>

\* the run has followed S3Events so far, and this event is the next of them
Follows(name, arg) ==
    IF scenario >= 0 /\ scenario < Len(S3Events)
       /\ S3Events[scenario + 1] = <<name, arg>>
    THEN scenario + 1
    ELSE -1

\* the builder's fields after a call that ended in b
Becomes(b, name, tag) ==
    /\ elems' = b.elems
    /\ root' = b.root
    /\ last' = b.last
    /\ tree' = b.tree
    /\ text' = b.text
    /\ tail' = b.tail
    /\ err' = b.err
    /\ ret' = b.ret
    /\ op' = [name |-> name, tag |-> tag]
    /\ ndata' = (IF name = "data" THEN ndata + 1 ELSE ndata)
    /\ scenario' = Follows(name, IF name = "data" THEN Alphabet[ndata + 1] ELSE tag)
    /\ UNCHANGED <<final, fix_broken, insert_comments, insert_declares, insert_pis>>
    /\ UNCHANGED <<evars, rvars, lvars, xvars, svars, pvars>>

\* the initial values of the components a specification does not drive
ElementIdle == nodes = <<>> /\ eop = "none"
ReaderIdle ==
    /\ stream = <<>> /\ buffer = <<>> /\ lineno = 1 /\ position = 0
    /\ input = <<>> /\ consumed = <<>> /\ char = "" /\ rerr = "none"
    /\ rop = "none"
LexerIdle ==
    /\ lexer = [stream |-> <<>>] /\ results = <<>>
    /\ perr = [kind |-> "none"] /\ parser = [at |-> "none"] /\ lop = "none"
XPathIdle ==
    /\ xpath = <<>> /\ context = 0 /\ xlexer = [stream |-> <<>>]
    /\ elements = <<>> /\ values = [some |-> FALSE, list |-> <<>>]
    /\ xret = [called |-> FALSE, err |-> "none", v |-> <<>>] /\ xop = "none"
    /\ calls = [name \in {"find", "findall", "iterfind", "findtext"} |->
                    [called |-> FALSE, err |-> "none", v |-> <<>>]]
SourceIdle ==
    /\ pstream = [set |-> FALSE, bytes |-> <<>>] /\ pbuffer = [kind |-> "None"]
    /\ accepted = <<>> /\ parsed = <<>> /\ srcerr = "none" /\ pop = "none"
SerializerIdle ==
    /\ plain = <<>> /\ escaped = <<>> /\ unescaped = [err |-> "none", v |-> <<>>]
    /\ first = [elems |-> <<>>, root |-> 0] /\ output = <<>>
    /\ content = <<>> /\ given = "none" /\ sop = "none"
BuilderIdle ==
    /\ elems = <<>> /\ root = 0 /\ last = 0 /\ tree = <<>> /\ text = <<>>
    /\ tail = FALSE /\ final = 0 /\ fix_broken = FALSE
    /\ insert_comments = FALSE /\ insert_declares = FALSE /\ insert_pis = FALSE
    /\ err = "none" /\ ret = 0 /\ op = [name |-> "init", tag |-> ""]
    /\ ndata = 0 /\ scenario = -1

\* TreeBuilder.__init__ / __post_init__ for every choice of the constructor's
\* switches: with no root, or with a fresh Element('document') as
\* HTMLTreeParser supplies it
Constructed ==
    /\ fix_broken \in BOOLEAN
    /\ insert_comments \in BOOLEAN
    /\ insert_declares \in BOOLEAN
    /\ insert_pis \in BOOLEAN
    /\ \E withRoot \in BOOLEAN :
        /\ elems = IF withRoot THEN <<NewElement("document")>> ELSE <<>>
        /\ root = IF withRoot THEN 1 ELSE 0
        /\ last = root
        /\ tree = IF withRoot THEN <<1>> ELSE <<>>
        /\ final = IF withRoot THEN 1 ELSE 0
    /\ text = <<>>
    /\ tail = FALSE
    /\ err = "none" /\ ret = 0 /\ op = [name |-> "init", tag |-> ""]
    /\ ndata = 0
    /\ scenario = (IF fix_broken THEN 0 ELSE -1)
    /\ ElementIdle /\ ReaderIdle /\ LexerIdle /\ XPathIdle /\ SerializerIdle /\ SourceIdle

\* TreeBuilder(root=e) for an Element e the caller made: its text and its
\* tail may be set already
Rooted ==
    /\ fix_broken \in BOOLEAN
    /\ insert_comments \in BOOLEAN
    /\ insert_declares \in BOOLEAN
    /\ insert_pis \in BOOLEAN
    /\ \E t \in {None, Str(<<"r">>)}, u \in {None, Str(<<"t">>)} :
        elems = <<[NewElement("document") EXCEPT !.text = t, !.tail = u]>>
    /\ root = 1 /\ last = 1 /\ tree = <<1>> /\ final = 1
    /\ text = <<>>
    /\ tail = FALSE
    /\ err = "none" /\ ret = 0 /\ op = [name |-> "init", tag |-> ""]
    /\ ndata = 0
    /\ scenario = -1
    /\ ElementIdle /\ ReaderIdle /\ LexerIdle /\ XPathIdle /\ SerializerIdle /\ SourceIdle

\* the builders of Spec: strict or lenient, with or without a root, and the
\* insert_* switches at the constructor's default, off
InitBuilder == Constructed /\ ~insert_comments /\ ~insert_declares /\ ~insert_pis

\* the builders of SpecInline: every choice of the insert_* switches too
InitInline == Constructed

\* a raised exception ends the run, and so does close(): Parser.close() calls
\* the builder's events one by one, lets an exception through, and returns
\* what the builder's close() returns
Running == err = "none" /\ op.name # "close"

\* room on the heap for the element a call creates, and for the synthetic
\* root _append creates with it
Room ==
    Len(elems) + (IF tree = <<>> /\ root # 0 /\ fix_broken THEN 2 ELSE 1) <= MaxElems

start ==
    /\ Running /\ Room
    /\ \E tag \in Tags : Becomes(BStart(Self, tag, <<>>), "start", tag)

end ==
    /\ Running
    /\ \E tag \in EndTags : Becomes(BEnd(Self, tag), "end", tag)

\* TreeBuilder.startend
startend ==
    /\ Running /\ Room
    /\ \E tag \in Tags :
        LET b1 == BStart(Self, tag, <<>>) IN
        Becomes(IF b1.err # "none" THEN b1 ELSE BEnd(b1, tag), "startend", tag)

\* TreeBuilder.data
data ==
    /\ Running /\ ndata < MaxData
    /\ Becomes([Self EXCEPT !.text = Append(@, Chunk(ndata + 1))], "data", "")

\* TreeBuilder.comment
comment ==
    /\ Running /\ (insert_comments => Room)
    /\ Becomes(IF insert_comments
               THEN BInline(Self, NewSpecial("Comment", <<"c">>))
               ELSE Self, "comment", "")

\* TreeBuilder.declaration
declaration ==
    /\ Running /\ (insert_declares => Room)
    /\ Becomes(IF root # 0 /\ insert_declares
               THEN BInline(Self, NewSpecial("Declaration", <<"d">>))
               ELSE Self, "declaration", "")

\* TreeBuilder.pi: the text of a ProcessingInstruction is target + ' ' + value
pi ==
    /\ Running /\ (insert_pis => Room)
    /\ Becomes(IF insert_pis
               THEN BInline(Self, NewSpecial("ProcessingInstruction", <<"t", " ", "v">>))
               ELSE Self, "pi", "")

close ==
    /\ Running
    /\ Becomes(BClose(Self), "close", "")

NextBuilder ==
    \/ start
    \/ end
    \/ startend
    \/ data
    \/ comment
    \/ declaration
    \/ pi
    \/ close

Spec == InitBuilder /\ [][NextBuilder]_vars

SpecInline == InitInline /\ [][NextBuilder]_vars

SpecRooted == Rooted /\ [][NextBuilder]_vars

(***************************************************************************)
(* Properties of the tree builder                                          *)
(***************************************************************************)
\* the elements start events created (a synthetic root is tagged "document",
\* a special node by its class)
Started(e) == elems[e].tag \in Tags

\* the started elements in the order they were started: identities grow
RECURSIVE StartedFrom(_)
StartedFrom(i) ==
    IF i > Len(elems) THEN <<>>
    ELSE (IF Started(i) THEN <<i>> ELSE <<>>) \o StartedFrom(i + 1)

\* the index in the stack tr of the nearest (innermost) open element tagged tag
Nearest(tr, tag) ==
    CHOOSE i \in 1..Len(tr) :
        /\ elems[tr[i]].tag = tag
        /\ \A j \in (i + 1)..Len(tr) : elems[tr[j]].tag # tag

\* C1: in strict mode an end(tag) event raises BuilderError whenever no
\* element is open or the innermost open element's tag differs from tag
C1_StrictEndRaises ==
    [][(/\ op'.name = "end"
        /\ ~fix_broken
        /\ (tree = <<>> \/ elems[tree[Len(tree)]].tag # op'.tag))
       => err' = "BuilderError"]_vars

\* a strict end has raised on an open element of another tag
C1_Witness ==
    /\ op.name = "end" /\ ~fix_broken /\ err = "BuilderError"
    /\ tree # <<>> /\ last # 0 /\ elems[last].tag # op.tag

\* C2: in lenient mode, on a builder created without a root, close() after
\* any events with at least one start returns the root without error, and
\* iter() on it visits every started element, in the order they were started
C2_LenientCloseVisitsAll ==
    (/\ op.name = "close" /\ fix_broken /\ final = 0
     /\ \E e \in 1..Len(elems) : Started(e))
    => /\ err = "none"
       /\ ret # 0
       /\ SelectSeq(Iter(elems, ret), Started) = StartedFrom(1)

\* a lenient close has returned three nested elements, the inner ones never
\* ended by an event of their own
C2_Witness ==
    /\ op.name = "close" /\ fix_broken /\ final = 0 /\ ret = 1
    /\ Len(elems) = 3 /\ elems[2].parent = 1 /\ elems[3].parent = 2
    /\ Started(1) /\ Started(2) /\ Started(3)
    /\ ~elems[3].tail.some
    /\ tree = <<>>

\* C3: a lenient end(tag), when the innermost open element has another tag
\* and an element tagged tag is open below it, closes the elements from the
\* top of the stack down to and including the nearest one tagged tag, and
\* leaves every element below it open
C3_LenientEndClosesToNearest ==
    [][(/\ op'.name = "end"
        /\ fix_broken
        /\ tree # <<>>
        /\ elems[tree[Len(tree)]].tag # op'.tag
        /\ \E i \in 1..Len(tree) : elems[tree[i]].tag = op'.tag)
       => /\ err' = "none"
          /\ tree' = SubSeq(tree, 1, Nearest(tree, op'.tag) - 1)]_vars

\* a lenient end has closed an element that was still open together with its
\* parent, and has left an element open below them
C3_Witness ==
    /\ op.name = "end" /\ fix_broken /\ err = "none"
    /\ tree # <<>>
    /\ last # 0 /\ elems[last].tag = op.tag
    /\ elems[last].children # <<>>
    /\ LET c == elems[last].children[Len(elems[last].children)] IN
       Started(c) /\ elems[c].tag # op.tag /\ ~elems[c].tail.some

\* C4: a lenient end(tag), when no open element has that tag, leaves the
\* stack of open elements as it was
C4_SpuriousEndDropped ==
    [][(/\ op'.name = "end"
        /\ fix_broken
        /\ \A i \in 1..Len(tree) : elems[tree[i]].tag # op'.tag)
       => tree' = tree]_vars

\* C5: in strict mode, with no element open and a root set, a start event
\* raises BuilderError
C5_StrictSecondRootRejected ==
    [][(/\ op'.name \in {"start", "startend"}
        /\ ~fix_broken
        /\ tree = <<>> /\ root # 0)
       => err' = "BuilderError"]_vars

\* a strict start has raised after the root was closed: the element it
\* created is attached nowhere
C5_Witness ==
    /\ op.name = "start" /\ ~fix_broken /\ err = "BuilderError"
    /\ tree = <<>> /\ root # 0
    /\ last # root /\ elems[last].parent = 0

\* C6: in strict mode close() returns the root if and only if the number of
\* open elements equals final and a root exists, and raises BuilderError in
\* every other state
C6_StrictClose ==
    [][(op'.name = "close" /\ ~fix_broken)
       => IF Len(tree) = final /\ root # 0
          THEN err' = "none" /\ ret' = root
          ELSE err' = "BuilderError" /\ ret' = 0]_vars

\* a strict close has returned the root of a builder constructed with one,
\* under which an element was started and ended
C6_Witness ==
    /\ op.name = "close" /\ ~fix_broken /\ err = "none"
    /\ final = 1 /\ ret = 1 /\ elems[1].children # <<>>

\* the element the first start event of scenario S3 created
S3Ul == final + 1

\* C7 as stated: scenario S3 yields a ul element with exactly two li
\* children whose texts are "a" and "b"
C7_TwoLiChildren ==
    scenario = Len(S3Events)
    => /\ err = "none"
       /\ elems[S3Ul].tag = "ul"
       /\ Len(elems[S3Ul].children) = 2
       /\ \A i \in 1..2 : elems[elems[S3Ul].children[i]].tag = "li"
       /\ elems[elems[S3Ul].children[1]].text = Str(<<"a">>)
       /\ elems[elems[S3Ul].children[2]].text = Str(<<"b">>)

\* C7 amended: scenario S3 yields a ul element with exactly one li child,
\* whose text is "a" and whose only child is an li element with text "b"
C7_NestedLi ==
    scenario = Len(S3Events)
    => /\ err = "none"
       /\ ret = root
       /\ elems[S3Ul].tag = "ul"
       /\ Len(elems[S3Ul].children) = 1
       /\ LET li1 == elems[S3Ul].children[1] IN
          /\ elems[li1].tag = "li"
          /\ elems[li1].text = Str(<<"a">>)
          /\ Len(elems[li1].children) = 1
          /\ LET li2 == elems[li1].children[1] IN
             /\ elems[li2].tag = "li"
             /\ elems[li2].text = Str(<<"b">>)
             /\ elems[li2].children = <<>>

\* the run was scenario S3, close() included
C7_Witness == scenario = Len(S3Events) /\ op.name = "close"

\* C9: in every tree the builder returns, each element listed in
\* p.children has p as its parent, recursively from the root
C9_ReturnedTreeParentLinks ==
    ret # 0 =>
        LET visited == Iter(elems, ret) IN
        \A k \in 1..Len(visited) :
            \A i \in 1..Len(elems[visited[k]].children) :
                elems[elems[visited[k]].children[i]].parent = visited[k]

\* a lenient builder has returned a synthetic document root over the old
\* root and a second top-level element
C9_Witness ==
    /\ ret # 0 /\ fix_broken /\ final = 0
    /\ elems[ret].tag = "document"
    /\ Len(elems[ret].children) = 2

(***************************************************************************)
(* The Element edit methods (pyxml/element.py)                             *)
(***************************************************************************)
Range(q) == {q[i] : i \in 1..Len(q)}

\* list.insert(index, x): the index is clamped to the list
ListInsert(q, index, x) ==
    LET i == IF index > Len(q) THEN Len(q) ELSE index IN
    SubSeq(q, 1, i) \o <<x>> \o SubSeq(q, i + 1, Len(q))

\* list.remove(x): the first occurrence goes
ListRemove(q, x) ==
    LET i == CHOOSE k \in 1..Len(q) : q[k] = x /\ \A j \in 1..(k - 1) : q[j] # x IN
    SubSeq(q, 1, i - 1) \o SubSeq(q, i + 1, Len(q))

\* Element.__setitem__, the index counted from 0
ElemSetItem(ns, p, index, e) == [ns EXCEPT ![p].children[index + 1] = e]

\* Element.insert
ElemInsert(ns, p, index, e) == [ns EXCEPT ![p].children = ListInsert(@, index, e)]

\* the loop of Element.extend over the elements it was given
RECURSIVE SetParents(_, _, _)
SetParents(ns, p, es) ==
    IF es = <<>> THEN ns
    ELSE SetParents([ns EXCEPT ![Head(es)].parent = p], p, Tail(es))

\* Element.extend: children.extend consumes its argument, so the loop that
\* follows runs over a list, and over nothing when it was given an iterator
ElemExtend(ns, p, es, isList) ==
    LET ns1 == [ns EXCEPT ![p].children = @ \o es] IN
    IF isList THEN SetParents(ns1, p, es) ELSE ns1

\* Element.remove
ElemRemove(ns, p, e) ==
    [ns EXCEPT ![p].children = ListRemove(@, e), ![e].parent = 0]

\* Element.clear
ElemClear(ns, p) ==
    [[n \in DOMAIN ns |->
        IF n \in Range(ns[p].children) THEN [ns[n] EXCEPT !.parent = 0] ELSE ns[n]]
     EXCEPT ![p].children = <<>>]

\* an element that is in no tree: it has no parent and no element lists it
Detached(e) ==
    /\ nodes[e].parent = 0
    /\ \A n \in DOMAIN nodes : e \notin Range(nodes[n].children)

\* e is p, or is above p by the parent links
RECURSIVE Above(_, _, _)
Above(e, p, fuel) ==
    \/ e = p
    \/ fuel > 0 /\ nodes[p].parent # 0 /\ Above(e, nodes[p].parent, fuel - 1)

\* an element the caller may add under p: one that is in no tree yet, and
\* not the root of the tree p is in
Addable(p, e) == Detached(e) /\ ~Above(e, p, MaxNodes)

Edited(ns, name) ==
    /\ nodes' = ns
    /\ eop' = name
    /\ UNCHANGED <<bvars, rvars, lvars, xvars, svars, pvars>>

\* Element objects fresh from Element.__init__
InitElement ==
    /\ nodes = [n \in 1..MaxNodes |-> [children |-> <<>>, parent |-> 0]]
    /\ eop = "none"
    /\ BuilderIdle /\ ReaderIdle /\ LexerIdle /\ XPathIdle /\ SerializerIdle /\ SourceIdle

setitem ==
    \E p \in DOMAIN nodes, e \in DOMAIN nodes :
        \E index \in 0..(Len(nodes[p].children) - 1) :
            /\ Addable(p, e)
            /\ Edited(ElemSetItem(nodes, p, index, e), "setitem")

insert ==
    \E p \in DOMAIN nodes, e \in DOMAIN nodes :
        \E index \in 0..Len(nodes[p].children) :
            /\ Addable(p, e)
            /\ Edited(ElemInsert(nodes, p, index, e), "insert")

append ==
    \E p \in DOMAIN nodes, e \in DOMAIN nodes :
        /\ Addable(p, e)
        /\ Edited(ElemAppend(nodes, p, e), "append")

extend ==
    \E p \in DOMAIN nodes, e1 \in DOMAIN nodes, e2 \in DOMAIN nodes :
        \E isList \in BOOLEAN :
            /\ e1 # e2 /\ Addable(p, e1) /\ Addable(p, e2)
            /\ Edited(ElemExtend(nodes, p, <<e1, e2>>, isList), "extend")

remove ==
    \E p \in DOMAIN nodes :
        \E e \in Range(nodes[p].children) :
            Edited(ElemRemove(nodes, p, e), "remove")

clear ==
    \E p \in DOMAIN nodes : Edited(ElemClear(nodes, p), "clear")

NextElement ==
    \/ setitem
    \/ insert
    \/ append
    \/ extend
    \/ remove
    \/ clear

SpecElement == InitElement /\ [][NextElement]_vars

\* C8: after any sequence of edits, c is in p.children exactly when
\* c.parent is p
C8_ParentLinks ==
    \A p \in DOMAIN nodes, c \in DOMAIN nodes :
        (c \in Range(nodes[p].children)) <=> (nodes[c].parent = p)

(***************************************************************************)
(* The byte reader (pyxml/_tokenize.py) and the XPath path lexer's use of  *)
(* it (pyxml/xpath/lexer.py)                                               *)
(***************************************************************************)
\* the bytes of an input, each as a one-character string
Bytes == {"a", "/", "@", "[", "\n"}
NEWLINE == "\n"
SLASH == "/"
OPEN_BRACK == "["
ATSYM == "@"
\* the bytes at which expr_ahead finds an expression
EXPR_START == {"'", "\"", "@", "("}
\* read_byte's None
NoByte == ""

\* the sequences over S of length n
RECURSIVE SeqsOfLen(_, _)
SeqsOfLen(S, n) ==
    IF n = 0 THEN {<<>>}
    ELSE {Append(q, x) : q \in SeqsOfLen(S, n - 1), x \in S}

\* q without its last n elements
DropLast(q, n) == SubSeq(q, 1, Len(q) - n)
\* the last n elements of q
LastOf(q, n) == SubSeq(q, Len(q) - n + 1, Len(q))

\* the tail of BaseLexer.read_byte, once it has a byte: the position
\* bookkeeping and the return
Got(r, c) ==
    LET r1 == IF c = NEWLINE THEN [r EXCEPT !.lineno = @ + 1, !.position = 0]
              ELSE r
    IN  [r1 EXCEPT !.position = @ + 1, !.char = c, !.consumed = Append(@, c)]

\* BaseLexer.read_byte: the pushback buffer first, then the stream
ReadByte(r) ==
    IF r.buffer = <<>>
    THEN IF r.stream = <<>>
         THEN [r EXCEPT !.char = NoByte]
         ELSE Got([r EXCEPT !.stream = Tail(@)], Head(r.stream))
    ELSE Got([r EXCEPT !.buffer = Tail(@)], Head(r.buffer))

\* BaseLexer.unread(*data): the bytes are put at the end of the buffer
Unread(r, bytes) ==
    LET r1 == [r EXCEPT !.position = @ - Len(bytes)] IN
    IF (\E i \in 1..Len(bytes) : bytes[i] = NEWLINE) \/ r1.position < 0
    THEN [r1 EXCEPT !.err = "RuntimeError"]
    ELSE [r1 EXCEPT !.buffer = @ \o bytes,
                    !.consumed = DropLast(@, Len(bytes))]

\* the loop of XLexer.expr_ahead: the bytes it reads, up to a slash, a
\* bracket after the first byte, or the start of an expression
RECURSIVE ExprAheadLoop(_, _)
ExprAheadLoop(r, ahead) ==
    LET r1 == ReadByte(r) IN
    IF r1.char = NoByte THEN [r |-> r1, ahead |-> ahead]
    ELSE LET ahead1 == Append(ahead, r1.char) IN
         IF \/ r1.char = SLASH
            \/ Len(ahead1) > 1 /\ r1.char = OPEN_BRACK
            \/ r1.char \in EXPR_START
         THEN [r |-> r1, ahead |-> ahead1]
         ELSE ExprAheadLoop(r1, ahead1)

\* XLexer.expr_ahead: the bytes read ahead go back by self.buffer.extend
ExprAhead(r) ==
    LET l == ExprAheadLoop(r, <<>>) IN
    [l.r EXCEPT !.buffer = @ \o l.ahead,
                !.consumed = DropLast(@, Len(l.ahead))]

\* XLexer._next, when the NODE it read cannot be a tag: the value is pushed
\* back, and so is the first byte read after it unless it opens a filter
Reread(r, value) ==
    LET r1 == Unread(r, value) IN
    IF r1.err # "none" THEN r1
    ELSE LET r2 == ReadByte(r1) IN
         IF r2.char = OPEN_BRACK THEN r2 ELSE Unread(r2, <<r2.char>>)

\* the reader's fields at the start of a call
Reader == [stream |-> stream, buffer |-> buffer, lineno |-> lineno,
           position |-> position, consumed |-> consumed, char |-> char,
           err |-> "none"]

\* the reader's fields after a call that ended in r
Read(r, name) ==
    /\ stream' = r.stream
    /\ buffer' = r.buffer
    /\ lineno' = r.lineno
    /\ position' = r.position
    /\ consumed' = r.consumed
    /\ char' = r.char
    /\ rerr' = r.err
    /\ rop' = name
    /\ UNCHANGED input
    /\ UNCHANGED <<bvars, evars, lvars, xvars, svars, pvars>>

\* BaseLexer.__init__ over the bytes of an input
InitReader ==
    /\ input \in UNION {SeqsOfLen(Bytes, n) : n \in 0..MaxInput}
    /\ stream = input
    /\ buffer = <<>>
    /\ lineno = 1
    /\ position = 0
    /\ consumed = <<>>
    /\ char = NoByte
    /\ rerr = "none"
    /\ rop = "none"
    /\ BuilderIdle /\ ElementIdle /\ LexerIdle /\ XPathIdle /\ SerializerIdle /\ SourceIdle

\* a RuntimeError of unread ends the run
Reading == rerr = "none"

read_byte == Reading /\ Read(ReadByte(Reader), "read_byte")

\* a lexer gives back the bytes it read last
unread ==
    /\ Reading
    /\ \E n \in 1..Len(consumed) : Read(Unread(Reader, LastOf(consumed, n)), "unread")

\* the counters stay within the bounds of a run
Counted(r) == r.position <= MaxPosition /\ r.lineno <= MaxLineno

expr_ahead ==
    /\ Reading
    /\ Counted(ExprAhead(Reader))
    /\ Read(ExprAhead(Reader), "expr_ahead")

\* the path lexer re-reads a step that starts an expression, such as @a
reread ==
    /\ Reading
    /\ \E n \in 1..Len(consumed) :
        /\ LastOf(consumed, n)[1] = ATSYM
        /\ Read(Reread(Reader, LastOf(consumed, n)), "reread")

NextReader ==
    \/ read_byte
    \/ unread
    \/ expr_ahead
    \/ reread

SpecReader == InitReader /\ [][NextReader]_vars

\* C10: the bytes given to unread are the next bytes read_byte returns, in
\* the order given and ahead of every byte not yet read: what the lexer
\* holds, then the pushback buffer, then the rest of the stream, is the input
C10_SourceOrder ==
    rerr = "none" => consumed \o buffer \o stream = input

(***************************************************************************)
(* The XML lexer (pyxml/lexer.py) over the byte reader                     *)
(***************************************************************************)
SPACES == {"\n", "\r", "\t", " "}
QUOTES == {"\"", "'"}
SPECIAL == {"=", "<", ">", "/"}
OPEN_TAG == "<"
CLOSE_TAG == ">"
EQUALS == "="
BANG == "!"
DASH == "-"
QUESTION == "?"
CLOSE_BRACK == "]"
\* SLASH of pyxml/_tokenize.py, the escape byte of read_quote
BACKSLASH == "\\"
SPECIAL_TAGS == {<<"s", "c", "r", "i", "p", "t">>, <<"s", "t", "y", "l", "e">>}

\* class Token
UNDEFINED == 0
TAG_START == 1
ATTR_NAME == 2
ATTR_VALUE == 3
TAG_END == 4
TAG_CLOSE == 5
COMMENT == 6
DECLARATION == 7
INSTRUCTION == 8
TEXT == 9

\* value.append(char)
Put(l, c) == [l EXCEPT !.value = Append(@, c)]

\* bytes.endswith / bytes.startswith
EndsWith(q, e) == Len(q) >= Len(e) /\ LastOf(q, Len(e)) = e
StartsWith(q, e) == Len(q) >= Len(e) /\ SubSeq(q, 1, Len(e)) = e

\* BaseLexer.read_quote: up to the closing quote that no odd run of
\* backslashes escapes
RECURSIVE ReadQuoteLoop(_, _, _)
ReadQuoteLoop(l, quote, escapes) ==
    LET l1 == ReadByte(l) IN
    IF l1.char = NoByte THEN l1
    ELSE IF l1.char = quote /\ escapes % 2 = 0 THEN l1
    ELSE ReadQuoteLoop(Put(l1, l1.char), quote,
                       IF l1.char = BACKSLASH THEN escapes + 1 ELSE 0)

ReadQuote(l, quote) == ReadQuoteLoop(l, quote, 0)

\* BaseLexer.skip_spaces
RECURSIVE SkipSpaces(_)
SkipSpaces(l) ==
    LET l1 == ReadByte(l) IN
    IF l1.char = NoByte THEN l1
    ELSE IF l1.char \notin SPACES THEN Unread(l1, <<l1.char>>)
    ELSE SkipSpaces(l1)

\* Lexer.read_word
RECURSIVE ReadWord(_)
ReadWord(l) ==
    LET l1 == ReadByte(l) IN
    IF l1.char = NoByte \/ l1.char \in SPACES THEN l1
    ELSE IF l1.char \in SPECIAL THEN Unread(l1, <<l1.char>>)
    ELSE ReadWord(Put(l1, l1.char))

\* Lexer.read_tag
RECURSIVE ReadTag(_)
ReadTag(l) ==
    LET l1 == ReadByte(l) IN
    IF l1.char = NoByte THEN l1
    ELSE IF l1.char \in SPACES
         THEN IF l1.value # <<>> /\ l1.value # <<SLASH>> THEN l1
              ELSE ReadTag(l1)
    ELSE IF l1.char \in SPECIAL THEN Unread(l1, <<l1.char>>)
    ELSE ReadTag(Put(l1, l1.char))

\* a faulty read_text: the text is given back with the byte that ends it
RECURSIVE ReadTextGivesBack(_)
ReadTextGivesBack(l) ==
    LET l1 == ReadByte(l) IN
    IF l1.char = NoByte THEN l1
    ELSE IF l1.char \in {OPEN_TAG, CLOSE_TAG} THEN Unread(l1, Append(l1.value, l1.char))
    ELSE ReadTextGivesBack(Put(l1, l1.char))

\* Lexer.read_text
RECURSIVE ReadText(_)
ReadText(l) ==
    LET l1 == ReadByte(l) IN
    IF l1.char = NoByte THEN l1
    ELSE IF l1.char \in {OPEN_TAG, CLOSE_TAG} THEN Unread(l1, <<l1.char>>)
    ELSE ReadText(Put(l1, l1.char))

\* Lexer.read_special: up to the end tag, which is given back
RECURSIVE ReadSpecialLoop(_, _, _)
ReadSpecialLoop(l, ahead, endtag) ==
    LET l1 == ReadByte(l) IN
    IF l1.char = NoByte THEN l1
    ELSE LET ahead1 == Append(ahead, l1.char) IN
         IF EndsWith(ahead1, endtag)
         THEN Unread([l1 EXCEPT !.value = @ \o DropLast(ahead1, Len(endtag))], endtag)
         ELSE ReadSpecialLoop(l1, ahead1, endtag)

ReadSpecial(l, endtag) == ReadSpecialLoop(l, <<>>, endtag)

\* `value[0] == '-'` of Lexer.read_comment compares a byte (an int) with a
\* str, which are never equal
IsInitialDash(value) == FALSE

\* the loop of Lexer.read_comment
RECURSIVE ReadCommentLoop(_, _)
ReadCommentLoop(l, dashes) ==
    LET l1 == ReadByte(l) IN
    IF l1.char = NoByte THEN l1
    ELSE IF l1.char = DASH
         THEN ReadCommentLoop(l1, IF l1.value # <<>> THEN Append(dashes, DASH)
                                  ELSE dashes)
    ELSE IF l1.char = CLOSE_TAG /\ Len(dashes) >= 2 THEN l1
    ELSE ReadCommentLoop(Put([l1 EXCEPT !.value = @ \o dashes], l1.char), <<>>)

\* Lexer.read_comment
ReadComment(l) ==
    LET l1 == ReadCommentLoop(l, <<>>) IN
    IF l1.value = <<>> THEN [l1 EXCEPT !.err = "IndexError"]
    ELSE IF IsInitialDash(l1.value) THEN [l1 EXCEPT !.value = Tail(@)]
    ELSE l1

\* Lexer.read_delcaration
RECURSIVE ReadDeclarationLoop(_, _)
ReadDeclarationLoop(l, brackets) ==
    LET l1 == ReadByte(l)
        c  == l1.char
    IN  IF c = NoByte THEN l1
        ELSE IF c = OPEN_BRACK THEN ReadDeclarationLoop(Put(l1, c), brackets + 1)
        ELSE IF c = CLOSE_BRACK THEN ReadDeclarationLoop(Put(l1, c), brackets - 1)
        ELSE IF c \in QUOTES
             THEN ReadDeclarationLoop(Put(ReadQuote(Put(l1, c), c), c), brackets)
        ELSE IF c = CLOSE_TAG /\ brackets <= 0 THEN l1
        ELSE ReadDeclarationLoop(Put(l1, c), brackets)

ReadDeclaration(l) == ReadDeclarationLoop(l, 0)

\* the value `question` has when Lexer.read_instruction starts
QuestionAtStart == TRUE

\* Lexer.read_instruction
RECURSIVE ReadInstructionLoop(_, _)
ReadInstructionLoop(l, question) ==
    LET l1 == ReadByte(l)
        c  == l1.char
    IN  IF c = NoByte THEN [l1 EXCEPT !.err = "ValueError"]
        ELSE IF c \in QUOTES
             THEN ReadInstructionLoop(Put(ReadQuote(Put(l1, c), c), c), question)
        ELSE IF c = QUESTION THEN ReadInstructionLoop(l1, TRUE)
        ELSE IF question
             THEN IF c = CLOSE_TAG THEN l1
                  ELSE ReadInstructionLoop(Put(l1, c), FALSE)
        ELSE ReadInstructionLoop(Put(l1, c), question)

ReadInstruction(l) == ReadInstructionLoop(l, QuestionAtStart)

\* Lexer.look_ahead: whether `find` is the next byte after spaces; the bytes
\* read go back to the buffer when it is not
RECURSIVE LookAheadLoop(_, _, _)
LookAheadLoop(l, ahead, find) ==
    LET l1 == ReadByte(l) IN
    IF l1.char = NoByte THEN [l1 EXCEPT !.buffer = @ \o ahead, !.found = FALSE]
    ELSE LET ahead1 == Append(ahead, l1.char) IN
         IF l1.char \in SPACES THEN LookAheadLoop(l1, ahead1, find)
         ELSE IF l1.char = find THEN [l1 EXCEPT !.found = TRUE]
         ELSE [l1 EXCEPT !.buffer = @ \o ahead1, !.found = FALSE]

LookAhead(l, find) == LookAheadLoop(l, <<>>, find)

\* the context rule that ends Lexer.guess_token
GuessByContext(l, c) ==
    IF l.last_token = 0 \/ (TAG_END <= l.last_token /\ l.last_token <= INSTRUCTION)
    THEN [Put(l, c) EXCEPT !.token = TEXT]
    ELSE IF c \notin SPACES THEN [Put(l, c) EXCEPT !.token = ATTR_NAME]
    ELSE [l EXCEPT !.token = UNDEFINED]

\* Lexer.guess_token
GuessToken(l, c) ==
    IF c = OPEN_TAG THEN [l EXCEPT !.token = TAG_START]
    ELSE IF c = SLASH /\ l.last_token # TAG_END
         THEN LET l1 == LookAhead(l, CLOSE_TAG) IN
              IF l1.found THEN [l1 EXCEPT !.token = TAG_CLOSE]
              ELSE GuessByContext(l1, c)
    ELSE IF c = CLOSE_TAG THEN [l EXCEPT !.token = TAG_END]
    ELSE IF c = EQUALS /\ l.last_token = ATTR_NAME
         THEN [SkipSpaces(l) EXCEPT !.token = ATTR_VALUE]
    ELSE GuessByContext(l, c)

\* Lexer.handle_text
HandleText(l) ==
    IF l.last_tag \in SPECIAL_TAGS
    THEN ReadSpecial(l, <<OPEN_TAG, SLASH>> \o l.last_tag \o <<CLOSE_TAG>>)
    ELSE ReadText(l)

\* the loop of Lexer._next, which finds the kind of the token
RECURSIVE NextLoop(_)
NextLoop(l) ==
    LET l1 == ReadByte(l)
        c  == l1.char
        l2 == [l1 EXCEPT !.nchar = c]
    IN  IF c = NoByte THEN l2
        ELSE IF c \in SPACES /\ l2.last_token < TAG_END THEN NextLoop(l2)
        ELSE IF l2.token = 0
             THEN LET g == GuessToken(l2, c) IN
                  IF g.err # "none" \/ g.token \in {TAG_END, TAG_CLOSE, TEXT} THEN g
                  ELSE NextLoop(g)
        ELSE IF l2.token = TAG_START /\ c = BANG
             THEN NextLoop([l2 EXCEPT !.token = DECLARATION])
        ELSE IF l2.token = TAG_START /\ c = QUESTION
             THEN NextLoop([l2 EXCEPT !.token = INSTRUCTION])
        ELSE IF c = DASH /\ l2.token = DECLARATION
             THEN NextLoop([l2 EXCEPT !.token = COMMENT])
        ELSE IF c \notin QUOTES THEN Put(l2, c)
        ELSE l2

\* all(c in SPECIAL for c in value) or value.startswith(b' ')
InvalidTag(value) ==
    \/ \A i \in 1..Len(value) : value[i] \in SPECIAL
    \/ StartsWith(value, <<" ">>)

\* the second half of Lexer._next: the token's value, by its kind
ReadValue(l) ==
    IF l.err # "none" THEN l
    ELSE IF l.token = TAG_START
         THEN LET l1 == ReadTag(l) IN
              IF l1.err # "none" THEN l1
              ELSE IF InvalidTag(l1.value)
                   THEN HandleText([l1 EXCEPT !.token = TEXT,
                                              !.value = <<OPEN_TAG>> \o @ \o <<" ">>])
              ELSE [l1 EXCEPT !.last_tag = l1.value]
    ELSE IF l.token = ATTR_NAME
         THEN LET l1 == ReadWord(l) IN
              IF l1.err = "none" /\ l1.value # <<>>
                 /\ l1.value[Len(l1.value)] = CLOSE_TAG
              THEN Unread([l1 EXCEPT !.value = DropLast(@, 1)], <<CLOSE_TAG>>)
              ELSE l1
    ELSE IF l.token = ATTR_VALUE
         THEN IF l.nchar # NoByte /\ l.nchar \in QUOTES THEN ReadQuote(l, l.nchar)
              ELSE ReadWord(l)
    ELSE IF l.token \in {TAG_END, TAG_CLOSE} THEN l
    ELSE IF l.token = TEXT THEN HandleText(l)
    ELSE IF l.token = COMMENT THEN ReadComment(l)
    ELSE IF l.token = DECLARATION THEN ReadDeclaration(l)
    ELSE IF l.token = INSTRUCTION THEN ReadInstruction(l)
    ELSE IF l.nchar # NoByte THEN [l EXCEPT !.err = "ValueError"]
    ELSE l

\* Lexer._next: the Result is in the fields token and value, with the line
\* and position the lexer had when it started on the token
LexerNext(l) ==
    LET l0 == [l EXCEPT !.token = 0, !.value = <<>>, !.nchar = NoByte,
                        !.found = FALSE, !.at = <<l.lineno, l.position>>,
                        !.offset = Len(l.source) - Len(l.buffer) - Len(l.stream)]
    IN  ReadValue(NextLoop(l0))

\* Result(token, bytes(value), lineno, position)
Result(l) == [token |-> l.token, value |-> l.value,
              lineno |-> l.at[1], position |-> l.at[2]]

\* BaseLexer.next returns None when nothing was collected
IsNone(res) == res.token = 0 /\ res.value = <<>>

\* BaseLexer.next: the last token is tracked when a Result is returned
BaseNext(l) ==
    LET l1 == LexerNext(l) IN
    IF l1.err # "none" \/ IsNone(Result(l1)) THEN l1
    ELSE [l1 EXCEPT !.last_token = l1.token]

\* Lexer.__init__ over the bytes of an input
NewLexer(bytes) ==
    [stream |-> bytes, buffer |-> <<>>, lineno |-> 1, position |-> 0,
     consumed |-> <<>>, char |-> NoByte, err |-> "none",
     last_token |-> 0, last_tag |-> <<>>,
     token |-> 0, value |-> <<>>, nchar |-> NoByte, found |-> FALSE,
     at |-> <<1, 0>>, offset |-> 0, source |-> bytes]

\* the inputs of a lexer run: a script or style element, a processing
\* instruction, or a comment followed by text, each around a body
BodyBytes == {"a", "<", ">", "/", "\"", "\\"}
InstructionBytes == {"p", "?", ">", " ", "\""}
CommentBytes == {"a", "-"}

Bodies(S, n) == UNION {SeqsOfLen(S, k) : k \in 0..n}

SpecialDoc(tag, body) ==
    <<OPEN_TAG>> \o tag \o <<CLOSE_TAG>> \o body
        \o <<OPEN_TAG, SLASH>> \o tag \o <<CLOSE_TAG>>
InstructionDoc(body) == <<OPEN_TAG, QUESTION>> \o body
CommentDoc(body) ==
    <<OPEN_TAG, BANG, DASH, DASH>> \o body \o <<DASH, DASH, CLOSE_TAG, "x">>

\* a declaration with a subset in brackets and a quoted string
DeclarationDoc ==
    <<OPEN_TAG, BANG, "a", OPEN_BRACK, "\"", CLOSE_TAG, "\"", CLOSE_BRACK, CLOSE_TAG>>
\* the input d cut after each of its bytes from `<!` on, short of its end
Truncations(d) == {SubSeq(d, 1, n) : n \in 2..(Len(d) - 1)}
\* a comment and a declaration that end before they are terminated
Unterminated ==
    Truncations(SubSeq(CommentDoc(<<"a">>), 1, 8)) \cup Truncations(DeclarationDoc)

LexerInputs ==
    {SpecialDoc(tag, body) : tag \in SPECIAL_TAGS, body \in Bodies(BodyBytes, MaxBody)}
    \cup {InstructionDoc(body) : body \in Bodies(InstructionBytes, MaxBody + 2)}
    \cup {CommentDoc(body) : body \in Bodies(CommentBytes, MaxBody + 1)}
    \cup {DeclarationDoc}
    \cup Unterminated

InitLexer ==
    /\ \E bytes \in LexerInputs : lexer = NewLexer(bytes)
    /\ results = <<>>
    /\ perr = [kind |-> "none"]
    /\ parser = [at |-> "none"]
    /\ lop = "init"
    /\ BuilderIdle /\ ElementIdle /\ ReaderIdle /\ XPathIdle /\ SerializerIdle /\ SourceIdle

\* BaseLexer.iter: lexer.next() until it returns None or raises
lexer_next ==
    /\ lop \in {"init", "next"}
    /\ lexer.err = "none"
    /\ LET l1 == BaseNext(lexer) IN
        /\ lexer' = l1
        /\ results' = (IF l1.err = "none" /\ ~IsNone(Result(l1))
                       THEN Append(results, Result(l1)) ELSE results)
        /\ lop' = (IF l1.err = "none" /\ IsNone(Result(l1)) THEN "done" ELSE "next")
    /\ UNCHANGED <<perr, parser>>
    /\ UNCHANGED <<bvars, evars, rvars, xvars, svars, pvars>>

NextLexer == lexer_next

SpecLexer == InitLexer /\ [][NextLexer]_vars

\* the bytes the lexer has taken from its source and not given back
Taken(l) == Len(l.source) - Len(l.buffer) - Len(l.stream)

\* C12: after a script or style start tag is closed, everything up to the
\* matching end tag is one TEXT token, whatever the bytes of the body are and
\* wherever they stand, the first byte included
C12_SpecialBodyVerbatim ==
    \A tag \in SPECIAL_TAGS, body \in Bodies(BodyBytes, MaxBody) :
        (lexer.source = SpecialDoc(tag, body) /\ body # <<>> /\ Len(results) >= 3)
            => (results[3].token = TEXT /\ results[3].value = body)

\* some ?> pair stands in the bytes
HasPair(bytes) ==
    \E i \in 1..(Len(bytes) - 1) : bytes[i] = QUESTION /\ bytes[i + 1] = CLOSE_TAG

\* C13: an INSTRUCTION token ends at a ?> pair and nowhere else, and when the
\* input holds no such pair lexing raises an error
C13_InstructionEndsAtPair ==
    /\ (lop = "next" /\ results # <<>> /\ results[Len(results)].token = INSTRUCTION)
        => (Taken(lexer) >= 2
            /\ lexer.source[Taken(lexer) - 1] = QUESTION
            /\ lexer.source[Taken(lexer)] = CLOSE_TAG)
    /\ \A body \in Bodies(InstructionBytes, MaxBody + 2) :
        (lexer.source = InstructionDoc(body) /\ ~HasPair(body) /\ lop # "init")
            => lexer.err = "ValueError"

\* C14: the value of a COMMENT token is the bytes between <!-- and -->, with
\* no dash of the opener in it (the empty value for <!---->), and the content
\* after the comment is lexed as usual
C14_CommentValue ==
    \A body \in Bodies(CommentBytes, MaxBody + 1) :
        lexer.source = CommentDoc(body) =>
            /\ lexer.err = "none"
            /\ results # <<>> =>
                (results[1].token = COMMENT /\ results[1].value = body)
            /\ Len(results) >= 2 =>
                (results[2].token = TEXT /\ results[2].value = <<"x">>)

(***************************************************************************)
(* Characters and numbers of ASCII strings                                 *)
(***************************************************************************)
DIGIT == {"0", "1", "2", "3", "4", "5", "6", "7", "8", "9"}
LOWER == <<"a", "b", "c", "d", "e", "f", "g", "h", "i", "j", "k", "l", "m",
           "n", "o", "p", "q", "r", "s", "t", "u", "v", "w", "x", "y", "z">>
UPPER == <<"A", "B", "C", "D", "E", "F", "G", "H", "I", "J", "K", "L", "M",
           "N", "O", "P", "Q", "R", "S", "T", "U", "V", "W", "X", "Y", "Z">>
LETTERS == {LOWER[i] : i \in 1..26} \cup {UPPER[i] : i \in 1..26}

\* bytes.isalnum() and bytes.isdigit() of ASCII bytes
IsAlnum(value) ==
    value # <<>> /\ \A i \in 1..Len(value) : value[i] \in LETTERS \cup DIGIT
IsDigit(value) ==
    value # <<>> /\ \A i \in 1..Len(value) : value[i] \in DIGIT

\* str(n) of an int that is not negative
RECURSIVE IntToStr(_)
IntToStr(n) ==
    LET d == <<"0", "1", "2", "3", "4", "5", "6", "7", "8", "9">>[(n % 10) + 1] IN
    IF n < 10 THEN <<d>> ELSE IntToStr(n \div 10) \o <<d>>

\* int(s) of a string of digits
RECURSIVE StrToInt(_)
StrToInt(s) ==
    IF s = <<>> THEN 0
    ELSE StrToInt(DropLast(s, 1)) * 10
         + (CHOOSE d \in 0..9 : IntToStr(d) = <<s[Len(s)]>>)

\* str.lower / str.upper of ASCII
LowerChar(c) ==
    IF \E i \in 1..26 : UPPER[i] = c THEN LOWER[CHOOSE i \in 1..26 : UPPER[i] = c] ELSE c
UpperChar(c) ==
    IF \E i \in 1..26 : LOWER[i] = c THEN UPPER[CHOOSE i \in 1..26 : LOWER[i] = c] ELSE c
Lower(s) == [i \in 1..Len(s) |-> LowerChar(s[i])]
Upper(s) == [i \in 1..Len(s) |-> UpperChar(s[i])]

(***************************************************************************)
(* Parser (pyxml/parser.py), as operators on a record p of the parser's    *)
(* lexer l, its target builder b and the exception raised, perr            *)
(***************************************************************************)
\* no exception
NoError == [kind |-> "none"]

\* an exception other than ParserError: it has no fields of the token
OtherError(kind) ==
    [kind |-> kind, msg |-> "", set |-> FALSE, token |-> 0, code |-> <<>>,
     position |-> <<0, 0>>]

\* ParserError.__init__(msg, result), result being what lexer l returned last:
\* the fields token, code and position are set only when result is not None
ParserError(msg, l) ==
    IF IsNone(Result(l)) THEN [OtherError("ParserError") EXCEPT !.msg = msg]
    ELSE [kind |-> "ParserError", msg |-> msg, set |-> TRUE,
          token |-> Result(l).token, code |-> Result(l).value,
          position |-> <<Result(l).lineno, Result(l).position>>]

\* bytes.decode() of ASCII bytes: utf-8 decodes each to the character of the
\* same code
Decode(value) == [i \in 1..Len(value) |-> value[i]]

\* str.replace(from, to)
RECURSIVE Replace(_, _, _)
Replace(s, from, to) ==
    IF Len(s) < Len(from) THEN s
    ELSE IF StartsWith(s, from)
         THEN to \o Replace(SubSeq(s, Len(from) + 1, Len(s)), from, to)
         ELSE <<Head(s)>> \o Replace(Tail(s), from, to)

\* UNESCAPE_ATTRIB, in the order of the dictionary
UNESCAPE_ATTRIB ==
    << << <<"&", "a", "m", "p", ";">>, <<"&">> >>,
       << <<"&", "l", "t", ";">>, <<"<">> >>,
       << <<"&", "g", "t", ";">>, <<">">> >>,
       << <<"&", "q", "u", "o", "t", ";">>, <<"\"">> >>,
       << <<"&", "n", "b", "s", "p", ";">>, <<" ">> >>,
       << <<"&", "#", "1", "3", ";">>, <<"\r">> >>,
       << <<"&", "#", "1", "0", ";">>, <<"\n">> >>,
       << <<"&", "#", "0", "9", ";">>, <<"\t">> >>,
       << <<"&", "#", "3", "9", ";">>, <<"'">> >> >>

\* the first loop of unescape: the escape sequences of the table, one after
\* the other
RECURSIVE UnescapeFrom(_, _)
UnescapeFrom(s, i) ==
    IF i > Len(UNESCAPE_ATTRIB) THEN s
    ELSE UnescapeFrom(Replace(s, UNESCAPE_ATTRIB[i][1], UNESCAPE_ATTRIB[i][2]), i + 1)

Unescape(s) == UnescapeFrom(s, 1)

\* ESCAPE_CDATA, in the order of the dictionary
ESCAPE_CDATA ==
    << << "&", <<"&", "a", "m", "p", ";">> >>,
       << "<", <<"&", "l", "t", ";">> >>,
       << ">", <<"&", "g", "t", ";">> >> >>

\* a faulty table: the line feed is written as the carriage return is
EscapeAttribCrLf ==
    ESCAPE_CDATA \o
    << << "\"", <<"&", "q", "u", "o", "t", ";">> >>,
       << " ", <<"&", "n", "b", "s", "p", ";">> >>,
       << "\r", <<"&", "#", "1", "3", ";">> >>,
       << "\n", <<"&", "#", "1", "3", ";">> >>,
       << "\t", <<"&", "#", "0", "9", ";">> >>,
       << "'", <<"&", "#", "3", "9", ";">> >> >>

\* ESCAPE_ATTRIB, in the order of the dictionary
ESCAPE_ATTRIB ==
    ESCAPE_CDATA \o
    << << "\"", <<"&", "q", "u", "o", "t", ";">> >>,
       << " ", <<"&", "n", "b", "s", "p", ";">> >>,
       << "\r", <<"&", "#", "1", "3", ";">> >>,
       << "\n", <<"&", "#", "1", "0", ";">> >>,
       << "\t", <<"&", "#", "0", "9", ";">> >>,
       << "'", <<"&", "#", "3", "9", ";">> >> >>

\* the loop of escape_cdata and escape_attrib over its table, from entry i:
\* `if char in text: text = text.replace(char, replace)`
RECURSIVE EscapeFrom(_, _, _)
EscapeFrom(table, s, i) ==
    IF i > Len(table) THEN s
    ELSE EscapeFrom(table, Replace(s, <<table[i][1]>>, table[i][2]), i + 1)

EscapeCdata(s) == EscapeFrom(ESCAPE_CDATA, s, 1)
EscapeAttrib(s) == EscapeFrom(ESCAPE_ATTRIB, s, 1)

\* the characters of code 32 to 126 (the grave accent is named by its code)
Printable ==
    <<" ", "!", "\"", "#", "$", "%", "&", "'", "(", ")", "*", "+", ",", "-", ".",
      "/", "0", "1", "2", "3", "4", "5", "6", "7", "8", "9", ":", ";", "<", "=",
      ">", "?", "@", "A", "B", "C", "D", "E", "F", "G", "H", "I", "J", "K", "L",
      "M", "N", "O", "P", "Q", "R", "S", "T", "U", "V", "W", "X", "Y", "Z", "[",
      "\\", "]", "^", "_", "chr(96)", "a", "b", "c", "d", "e", "f", "g", "h", "i", "j",
      "k", "l", "m", "n", "o", "p", "q", "r", "s", "t", "u", "v", "w", "x", "y",
      "z", "{", "|", "}", "~">>

\* chr(n): a character outside the table is named by its code
Chr(n) ==
    IF n = 9 THEN "\t" ELSE IF n = 10 THEN "\n" ELSE IF n = 13 THEN "\r"
    ELSE IF n >= 32 /\ n <= 126 THEN Printable[n - 31]
    ELSE "chr(" \o ToString(n) \o ")"

\* \w of the regular expression re_charref
IsWord(c) == c \in LETTERS \cup DIGIT \cup {"_"}

\* the length of the match of &#\w+; that starts at s[i], 0 when none does
WordRun(s, i) ==
    IF \E j \in i..Len(s) : ~IsWord(s[j])
    THEN (CHOOSE j \in i..Len(s) : ~IsWord(s[j]) /\ \A k \in i..(j - 1) : IsWord(s[k])) - i
    ELSE Len(s) + 1 - i
CharrefAt(s, i) ==
    IF i + 3 <= Len(s) /\ s[i] = "&" /\ s[i + 1] = "#"
       /\ WordRun(s, i + 2) > 0 /\ i + 2 + WordRun(s, i + 2) <= Len(s)
       /\ s[i + 2 + WordRun(s, i + 2)] = ";"
    THEN WordRun(s, i + 2) + 3
    ELSE 0

\* find_charrefs: re_charref.findall(text), the matches from the left
RECURSIVE FindCharrefsFrom(_, _)
FindCharrefsFrom(s, i) ==
    IF i > Len(s) THEN <<>>
    ELSE IF CharrefAt(s, i) > 0
    THEN <<SubSeq(s, i, i + CharrefAt(s, i) - 1)>>
         \o FindCharrefsFrom(s, i + CharrefAt(s, i))
    ELSE FindCharrefsFrom(s, i + 1)
find_charrefs(s) == FindCharrefsFrom(s, 1)

\* bytes.fromhex(h).decode('latin1') of an even number of hex digits
HexDigits == <<"0", "1", "2", "3", "4", "5", "6", "7", "8", "9",
               "a", "b", "c", "d", "e", "f">>
HexValue(c) ==
    IF c \in {"A", "B", "C", "D", "E", "F"}
    THEN CHOOSE n \in 10..15 : Upper(<<HexDigits[n + 1]>>) = <<c>>
    ELSE (CHOOSE n \in 1..16 : HexDigits[n] = c) - 1
IsHex(h) ==
    /\ Len(h) % 2 = 0
    /\ \A i \in 1..Len(h) :
        h[i] \in {HexDigits[n] : n \in 1..16} \cup {"A", "B", "C", "D", "E", "F"}
FromHex(h) ==
    [i \in 1..(Len(h) \div 2) |-> Chr(16 * HexValue(h[2 * i - 1]) + HexValue(h[2 * i]))]

\* the second loop of unescape, over the matches find_charrefs gave, from
\* match i: ref is the match without its & # and ;
RECURSIVE Charrefs(_, _, _)
Charrefs(s, matches, i) ==
    IF i > Len(matches) THEN [err |-> "none", v |-> s]
    ELSE LET ref == SubSeq(matches[i], 3, Len(matches[i]) - 1) IN
         IF Len(ref) % 2 = 1 /\ ref[1] = "x"
         THEN IF IsHex(Tail(ref))
              THEN Charrefs(Replace(s, matches[i], FromHex(Tail(ref))), matches, i + 1)
              ELSE [err |-> "ValueError", v |-> <<>>]
         ELSE IF ~IsDigit(ref) \/ StrToInt(ref) > 1114111
         THEN [err |-> "ValueError", v |-> <<>>]
         ELSE Charrefs(Replace(s, matches[i], <<Chr(StrToInt(ref))>>), matches, i + 1)

\* unescape(text): the sequences of the table, then the charrefs that remain
Unescaped(s) == Charrefs(Unescape(s), find_charrefs(Unescape(s)), 1)

\* str.lstrip('/')
RECURSIVE LStrip(_)
LStrip(s) == IF s # <<>> /\ Head(s) = SLASH THEN LStrip(Tail(s)) ELSE s

\* the parser after a call of its target that left the builder as b1
Built(p, b1) ==
    [p EXCEPT !.b = b1,
              !.perr = IF b1.err # "none" THEN OtherError(b1.err) ELSE @]

\* TreeBuilder.data
BData(b, chunk) == [b EXCEPT !.text = Append(@, chunk)]

\* TreeBuilder.startend
BStartEnd(b, tag, attrs) ==
    LET b1 == BStart(b, tag, attrs) IN IF b1.err # "none" THEN b1 ELSE BEnd(b1, tag)

\* TreeBuilder.comment
BComment(b, payload) ==
    IF insert_comments THEN BInline(b, NewSpecial("Comment", payload)) ELSE b

\* TreeBuilder.declaration
BDeclaration(b, payload) ==
    IF b.root # 0 /\ insert_declares
    THEN BInline(b, NewSpecial("Declaration", payload)) ELSE b

\* TreeBuilder.pi
BPi(b, target, value) ==
    IF insert_pis
    THEN BInline(b, NewSpecial("ProcessingInstruction", target \o <<" ">> \o value))
    ELSE b

\* the codecs of the model, by the names its documents give them (Python
\* looks a name up whatever its case: the names of the model are lower case)
UTF8 == {<<"u", "t", "f", "-", "8">>, <<"u", "t", "f", "8">>}
LATIN1 == {<<"l", "a", "t", "i", "n", "1">>, <<"l", "a", "t", "i", "n", "-", "1">>}
ASCII == {<<"a", "s", "c", "i", "i">>}

\* the bytes above 0x7F of the model, named by their code: 0xC3 0xA9 is the
\* UTF-8 form of the character of code 233, which is the byte 0xE9 in latin-1
HighBytes == {"0xC3", "0xA9", "0xE9"}
Latin1Char(byte) ==
    IF byte = "0xC3" THEN "chr(195)"
    ELSE IF byte = "0xA9" THEN "chr(169)"
    ELSE IF byte = "0xE9" THEN "chr(233)"
    ELSE byte

\* value.decode('utf-8') from byte i on, acc being the characters so far: a
\* byte above 0x7F that is not part of 0xC3 0xA9 is invalid
RECURSIVE DecodeUtf8(_, _, _)
DecodeUtf8(value, i, acc) ==
    IF i > Len(value) THEN [err |-> "none", v |-> acc]
    ELSE IF value[i] \notin HighBytes THEN DecodeUtf8(value, i + 1, Append(acc, value[i]))
    ELSE IF value[i] = "0xC3" /\ i < Len(value) /\ value[i + 1] = "0xA9"
    THEN DecodeUtf8(value, i + 2, Append(acc, "chr(233)"))
    ELSE [err |-> "UnicodeDecodeError", v |-> <<>>]

\* Parser._decode: value.decode(self.encoding)
Decoded(value, encoding) ==
    IF encoding \in UTF8 THEN DecodeUtf8(value, 1, <<>>)
    ELSE IF encoding \in LATIN1
    THEN [err |-> "none", v |-> [i \in 1..Len(value) |-> Latin1Char(value[i])]]
    ELSE IF encoding \in ASCII
    THEN IF \E i \in 1..Len(value) : value[i] \in HighBytes
         THEN [err |-> "UnicodeDecodeError", v |-> <<>>]
         ELSE [err |-> "none", v |-> value]
    ELSE [err |-> "LookupError", v |-> <<>>]

\* d[k] = v of a dictionary d, the sequence of its items in insertion order
DictSet(d, k, v) ==
    IF \E i \in 1..Len(d) : d[i][1] = k
    THEN [i \in 1..Len(d) |-> IF d[i][1] = k THEN <<k, v>> ELSE d[i]]
    ELSE Append(d, <<k, v>>)

\* attributes.update({k: 'true' for k in incomplete})
RECURSIVE UpdateTrue(_, _)
UpdateTrue(d, incomplete) ==
    IF incomplete = <<>> THEN d
    ELSE UpdateTrue(DictSet(d, Head(incomplete), <<"t", "r", "u", "e">>), Tail(incomplete))

\* Parser.parse_tag(tag) of an end tag, res being the Result (or None) that
\* self.lexer.next() returned in lexer l
ParseEndTag(p, l, res) ==
    IF IsNone(res) \/ res.token # TAG_END
    THEN [p EXCEPT !.perr = ParserError("Missing Tag End", l)]
    ELSE [Built(p, BEnd(p.b, LStrip(p.tag))) EXCEPT !.at = "next"]

\* the end of Parser.parse_tag(tag) of a start tag, after its loop: empty is
\* None when Parser.next calls parse_tag
Finalize(p, closed) ==
    IF closed
    THEN [Built(p, BStartEnd(p.b, p.tag, UpdateTrue(p.attributes, p.incomplete)))
            EXCEPT !.at = "next"]
    ELSE [Built(p, BStart(p.b, p.tag, UpdateTrue(p.attributes, p.incomplete)))
            EXCEPT !.at = "next"]

\* a faulty pairing: the value goes to the oldest name without a value
PairedOldest(p, u) ==
    IF u.err # "none" THEN [p EXCEPT !.perr = OtherError(u.err)]
    ELSE IF p.incomplete = <<>> THEN [p EXCEPT !.perr = OtherError("IndexError")]
    ELSE [p EXCEPT !.attributes = DictSet(@, p.incomplete[1], u.v),
                   !.incomplete = Tail(@)]

\* `attributes[incomplete.pop()] = self.unescape(value)`: the value is
\* unescaped first, u is what unescape gave
Paired(p, u) ==
    IF u.err # "none" THEN [p EXCEPT !.perr = OtherError(u.err)]
    ELSE IF p.incomplete = <<>> THEN [p EXCEPT !.perr = OtherError("IndexError")]
    ELSE [p EXCEPT !.attributes = DictSet(@, p.incomplete[Len(p.incomplete)], u.v),
                   !.incomplete = DropLast(@, 1)]

\* one turn of the attribute loop of parse_tag on a token that is not
\* TAG_END, d being what self._decode gave for its value
AttributeToken(p, l, token, d) ==
    IF d.err # "none" THEN [p EXCEPT !.perr = OtherError(d.err)]
    ELSE IF token = TAG_CLOSE THEN Finalize(p, TRUE)
    ELSE IF token = ATTR_NAME THEN [p EXCEPT !.incomplete = Append(@, d.v)]
    ELSE IF token = ATTR_VALUE THEN Paired(p, Unescaped(d.v))
    ELSE [p EXCEPT !.perr = ParserError("Unexpected Tag Token", l)]

\* one turn of the attribute loop of Parser.parse_tag(tag), and what follows
\* the loop when the turn ends it: incomplete is the list of the attribute
\* names that have no value yet
ParseAttribute(p, l, res) ==
    IF IsNone(res) \/ res.token = TAG_END THEN Finalize(p, FALSE)
    ELSE AttributeToken(p, l, res.token, Decoded(res.value, p.encoding))

\* the index of the first space of s, 0 when it has none
FirstSpace(s) ==
    IF \E i \in 1..Len(s) : s[i] = " "
    THEN CHOOSE i \in 1..Len(s) : s[i] = " " /\ \A j \in 1..(i - 1) : s[j] # " "
    ELSE 0

\* \s of the regular expression re_encoding, among the characters of ASCII
IsSpace(c) == c \in {" ", "\t", "\n", "\r", "\f"}

\* where the group of a match of re_encoding, encoding\s?=\s?([^\s,]+) with
\* IGNORECASE, starts when the match starts at s[i]; 0 when none starts there
GroupStart(s, i) ==
    LET w == <<"e", "n", "c", "o", "d", "i", "n", "g">>
        eq == IF i + 8 <= Len(s) /\ s[i + 8] = "=" THEN i + 8
              ELSE IF i + 9 <= Len(s) /\ IsSpace(s[i + 8]) /\ s[i + 9] = "=" THEN i + 9
              ELSE 0
        isGroup(k) == k <= Len(s) /\ ~IsSpace(s[k]) /\ s[k] # ","
    IN  IF i + 7 > Len(s) \/ Lower(SubSeq(s, i, i + 7)) # w \/ eq = 0 THEN 0
        ELSE IF isGroup(eq + 1) THEN eq + 1
        ELSE IF eq + 1 <= Len(s) /\ IsSpace(s[eq + 1]) /\ isGroup(eq + 2) THEN eq + 2
        ELSE 0

\* where the group that starts at s[k] ends: the run of characters that are
\* neither a space nor a comma
RECURSIVE GroupEnd(_, _)
GroupEnd(s, k) ==
    IF k < Len(s) /\ ~IsSpace(s[k + 1]) /\ s[k + 1] # "," THEN GroupEnd(s, k + 1) ELSE k

\* str.strip('\'"')
RECURSIVE StripQuotes(_)
StripQuotes(s) ==
    IF s # <<>> /\ Head(s) \in QUOTES THEN StripQuotes(Tail(s))
    ELSE IF s # <<>> /\ s[Len(s)] \in QUOTES THEN StripQuotes(DropLast(s, 1))
    ELSE s

\* the loop of process_pi over re_encoding.finditer(value), from s[i] on:
\* encoding is self.encoding, which every match assigns
RECURSIVE FindEncoding(_, _, _)
FindEncoding(s, i, encoding) ==
    IF i > Len(s) THEN encoding
    ELSE IF GroupStart(s, i) = 0 THEN FindEncoding(s, i + 1, encoding)
    ELSE FindEncoding(s, GroupEnd(s, GroupStart(s, i)) + 1,
                      StripQuotes(SubSeq(s, GroupStart(s, i), GroupEnd(s, GroupStart(s, i)))))

\* a faulty process_pi: the encoding is left as it is
ProcessPiKeepsEncoding(p, value) ==
    IF FirstSpace(value) = 0 THEN [p EXCEPT !.perr = OtherError("ValueError")]
    ELSE LET target == SubSeq(value, 1, FirstSpace(value) - 1)
             rest == SubSeq(value, FirstSpace(value) + 1, Len(value))
         IN  Built(p, BPi(p.b, target, rest))

\* Parser.process_pi: pi.split(' ', 1) must give two parts; the encoding is
\* assigned before the target's pi is called
ProcessPi(p, value) ==
    IF FirstSpace(value) = 0 THEN [p EXCEPT !.perr = OtherError("ValueError")]
    ELSE LET target == SubSeq(value, 1, FirstSpace(value) - 1)
             rest == SubSeq(value, FirstSpace(value) + 1, Len(value))
         IN  Built([p EXCEPT !.encoding = IF target = <<"x", "m", "l">>
                                          THEN FindEncoding(rest, 1, @) ELSE @],
                   BPi(p.b, target, rest))

\* self.target.data / comment of an unescaped value, u being what unescape
\* gave
Data(p, u) ==
    IF u.err # "none" THEN [p EXCEPT !.perr = OtherError(u.err)]
    ELSE Built(p, BData(p.b, u.v))
Commented(p, u) ==
    IF u.err # "none" THEN [p EXCEPT !.perr = OtherError(u.err)]
    ELSE Built(p, BComment(p.b, u.v))

\* Parser.next on a Result, d being what self._decode gave for its value
NextToken(p, l, token, d) ==
    IF d.err # "none" THEN [p EXCEPT !.perr = OtherError(d.err)]
    ELSE IF token = TAG_START
    THEN [p EXCEPT !.tag = d.v, !.incomplete = <<>>, !.attributes = <<>>,
                   !.at = IF StartsWith(d.v, <<SLASH>>) THEN "end" ELSE "attrs"]
    ELSE IF token = TEXT THEN Data(p, Unescaped(d.v))
    ELSE IF token = COMMENT THEN Commented(p, Unescaped(d.v))
    ELSE IF token = DECLARATION THEN Built(p, BDeclaration(p.b, d.v))
    ELSE IF token = INSTRUCTION THEN ProcessPi(p, d.v)
    ELSE [p EXCEPT !.perr = ParserError("Unexpected Next Token", l)]

\* Parser.next, from the Result (or None) of its self.lexer.next() up to the
\* next call of the lexer: at "end" and at "attrs" the parser is in parse_tag
\* and comes back to it, at "eof" next has returned False
ParserNext(p, l, res) ==
    IF IsNone(res) THEN [p EXCEPT !.at = "eof"]
    ELSE NextToken(p, l, res.token, Decoded(res.value, p.encoding))

\* the parser takes the Result (or None) of lexer l where it stands
Dispatch(p, l) ==
    IF l.err # "none" THEN [p EXCEPT !.perr = OtherError(l.err)]
    ELSE IF p.at = "end" THEN ParseEndTag(p, l, Result(l))
    ELSE IF p.at = "attrs" THEN ParseAttribute(p, l, Result(l))
    ELSE ParserNext(p, l, Result(l))

\* the bytes of the documents a parser runs over
ParserBytes == {"<", ">", "/", "p", " ", "\n", "?"}

\* start tags with attributes: <p, then names and values, then the end of the
\* tag or of the input
AttrPieces ==
    {<<" ", "a">>, <<" ", "b">>, <<"=", "v">>, <<"=", "\"", "w", "\"">>, <<"=">>}
TagEnds == {<<">">>, <<"/", ">">>, <<>>}
AttrDocs ==
    {(<<"<", "p">> \o Join(body)) \o e : body \in Bodies(AttrPieces, MaxAttrs), e \in TagEnds}

\* documents with an instruction that names an encoding, and bytes above 0x7F
\* in what follows
Instruction(body) == (<<"<", "?">> \o body) \o <<"?", ">">>
Prologs ==
    {<<>>,
     Instruction(<<"x", "m", "l", " ", "e", "n", "c", "o", "d", "i", "n", "g", "=",
                   "l", "a", "t", "i", "n", "1">>),
     Instruction(<<"x", "m", "l", " ", "v", "=", "\"", "1", "\"", " ",
                   "e", "n", "c", "o", "d", "i", "n", "g", "=",
                   "\"", "a", "s", "c", "i", "i", "\"">>),
     Instruction(<<"x", " ", "e", "n", "c", "o", "d", "i", "n", "g", "=",
                   "l", "a", "t", "i", "n", "1">>),
     Instruction(<<"x", "m", "l", " ", "e", "n", "c", "o", "d", "i", "n", "g", "=",
                   "z", "z">>)}
ContentPieces ==
    {<<"<", "p", ">">>, <<"u">>, <<"0xE9">>, <<"0xC3", "0xA9">>,
     Instruction(<<"x", "m", "l", " ", "e", "n", "c", "o", "d", "i", "n", "g", "=",
                   "u", "t", "f", "8">>)}
EncodingDocs ==
    {pro \o Join(body) : pro \in Prologs, body \in Bodies(ContentPieces, MaxTokens)}

ParserInputs == Bodies(ParserBytes, MaxDoc) \cup AttrDocs \cup EncodingDocs

\* Parser.__init__: the encoding is 'utf-8'
NewParser ==
    [at |-> "next", tag |-> <<>>, incomplete |-> <<>>, attributes |-> <<>>,
     encoding |-> <<"u", "t", "f", "-", "8">>]

\* Parser() with the default TreeBuilder, after feed(bytes): close() has
\* created the lexer over the stream
InitParser ==
    /\ \E bytes \in ParserInputs : lexer = NewLexer(bytes)
    /\ results = <<>>
    /\ perr = NoError
    /\ parser = NewParser
    /\ lop = "feed"
    /\ BuilderIdle /\ ElementIdle /\ ReaderIdle /\ XPathIdle /\ SerializerIdle /\ SourceIdle

\* the builder's fields after the parser's call left the builder as b
Targeted(b) ==
    /\ elems' = b.elems
    /\ root' = b.root
    /\ last' = b.last
    /\ tree' = b.tree
    /\ text' = b.text
    /\ tail' = b.tail
    /\ err' = b.err
    /\ ret' = b.ret
    /\ UNCHANGED <<final, fix_broken, insert_comments, insert_declares,
                   insert_pis, op, ndata, scenario>>

\* the parser's fields and its target's after a step left the lexer as l1 and
\* the parser, with its target, as p1
ParserStepped(p1, l1) ==
    /\ lexer' = l1
    /\ Targeted(p1.b)
    /\ perr' = p1.perr
    /\ parser' = [at |-> p1.at, tag |-> p1.tag, incomplete |-> p1.incomplete,
                  attributes |-> p1.attributes, encoding |-> p1.encoding]

\* BaseParser.close runs `while self.next(): pass`: one call of
\* self.lexer.next() by Parser.next or by parse_tag, and what the parser does
\* with the Result until it calls the lexer again
parser_next ==
    /\ lop \in {"feed", "parser_next"}
    /\ perr.kind = "none"
    /\ parser.at # "eof"
    /\ ParserStepped(Dispatch([b |-> Self, perr |-> perr, at |-> parser.at,
                               tag |-> parser.tag, incomplete |-> parser.incomplete,
                         attributes |-> parser.attributes,
                         encoding |-> parser.encoding], BaseNext(lexer)),
               BaseNext(lexer))
    /\ lop' = "parser_next"
    /\ UNCHANGED results
    /\ UNCHANGED <<evars, rvars, xvars, svars, pvars>>

\* the target's fields after its close() left it as b1: its exception is the
\* parser's
Closed(b1) ==
    /\ Targeted(b1)
    /\ perr' = (IF b1.err # "none" THEN OtherError(b1.err) ELSE perr)

\* BaseParser.close, after next() returned False: return self.target.close()
parser_close ==
    /\ lop = "parser_next"
    /\ perr.kind = "none"
    /\ parser.at = "eof"
    /\ Closed(BClose(Self))
    /\ lop' = "parser_close"
    /\ UNCHANGED <<lexer, results, parser>>
    /\ UNCHANGED <<evars, rvars, xvars, svars, pvars>>

NextParser ==
    \/ parser_next
    \/ parser_close

SpecParser == InitParser /\ [][NextParser]_vars

\* the lexer after it has read all of its stream
RECURSIVE ReadAll(_)
ReadAll(l) == IF l.stream = <<>> /\ l.buffer = <<>> THEN l ELSE ReadAll(ReadByte(l))

\* the (lineno, position) of the byte of the source at which the lexer began
\* to scan for its last token: the counters of a lexer that has read the
\* bytes before it, each once
SourcePosition(l) ==
    LET r == ReadAll(NewLexer(SubSeq(l.source, 1, l.offset))) IN
    <<r.lineno, r.position>>

\* C11: every ParserError of the parser driver carries the kind and the bytes
\* of the offending token and the (lineno, column) in the source at which
\* the lexer began on that token
C11_ErrorCarriesToken ==
    perr.kind = "ParserError" =>
        /\ perr.set
        /\ perr.token = lexer.token
        /\ perr.code = lexer.value
        /\ perr.position = SourcePosition(lexer)

(***************************************************************************)
(* The XPath lexers (pyxml/xpath/lexer.py)                                 *)
(***************************************************************************)
DOT == "."
WILDCARD == "*"
OPEN_PAREN == "("
CLOSE_PAREN == ")"
COMMA == ","
LESSTHAN == "<"
GREATERTHAN == ">"
AND == <<"a", "n", "d">>
OR == <<"o", "r">>
TRUE_BYTES == <<"t", "r", "u", "e">>
FALSE_BYTES == <<"f", "a", "l", "s", "e">>
XSPECIAL == {"*", "[", "]", "/"}
ESPECIAL == {"*", "[", "]", "(", ")", "/", "<", ">", ",", "=", "."}
FUNC == <<"(", ")">>
WORD == LETTERS \cup DIGIT \cup {"_"}

\* class XToken
XToken_SELF == 1
XToken_PARENT == 2
XToken_CHILD == 3
XToken_DECENDANT == 4
XToken_NODE == 5
XToken_WILDCARD == 6
XToken_FILTER == 7
XToken_FUNCTION == 8
XToken_EXPRESSION == 9

\* class EToken
EToken_BOOLEAN == 1
EToken_STRING == 2
EToken_INTEGER == 3
EToken_VARIABLE == 4
EToken_COMMA == 5
EToken_EXPRESSION == 6
EToken_EQUALS == 7
EToken_FUNCTION == 8
EToken_LT == 9
EToken_GT == 10
EToken_LTE == 11
EToken_GTE == 12
EToken_AND == 13
EToken_OR == 14

\* BaseLexer.read_word(value, terminate), terminate not empty
RECURSIVE BaseReadWord(_, _)
BaseReadWord(l, terminate) ==
    LET l1 == ReadByte(l) IN
    IF l1.char = NoByte \/ l1.char \in SPACES THEN l1
    ELSE IF l1.char \in terminate THEN Unread(l1, <<l1.char>>)
    ELSE BaseReadWord(Put(l1, l1.char), terminate)

\* XLexer.read_filter: a quoted string is kept with both of its quotes
RECURSIVE ReadFilter(_)
ReadFilter(l) ==
    LET l1 == ReadByte(l) IN
    IF l1.char = NoByte \/ l1.char = CLOSE_BRACK THEN l1
    ELSE IF l1.char \in QUOTES
         THEN ReadFilter(Put(ReadQuote(Put(l1, l1.char), l1.char), l1.char))
    ELSE ReadFilter(Put(l1, l1.char))

\* XLexer.read_expression: up to a space outside parentheses and brackets
RECURSIVE XReadExpression(_, _)
XReadExpression(l, parens) ==
    LET l1 == ReadByte(l)
        c  == l1.char
    IN  IF c = NoByte THEN l1
        ELSE IF c \in SPACES /\ parens = <<>> THEN Unread(l1, <<c>>)
        ELSE IF c \in QUOTES
             THEN XReadExpression(Put(ReadQuote(Put(l1, c), c), c), parens)
        ELSE IF c = OPEN_PAREN
             THEN XReadExpression(Put(l1, c), Append(parens, CLOSE_PAREN))
        ELSE IF c = OPEN_BRACK
             THEN XReadExpression(Put(l1, c), Append(parens, CLOSE_BRACK))
        ELSE IF c \in {CLOSE_PAREN, CLOSE_BRACK} /\ parens # <<>>
                /\ c = parens[Len(parens)]
             THEN XReadExpression(Put(l1, c), DropLast(parens, 1))
        ELSE XReadExpression(Put(l1, c), parens)

\* XLexer.expr_ahead on a lexer: found is what it returns
XExprAhead(l) ==
    LET a == ExprAheadLoop(l, <<>>) IN
    [a.r EXCEPT !.buffer = @ \o a.ahead,
                !.consumed = DropLast(@, Len(a.ahead)),
                !.found = a.r.char \in EXPR_START]

\* the loop of XLexer._next
RECURSIVE XNextLoop(_)
XNextLoop(l) ==
    LET l1 == ReadByte(l)
        c  == l1.char
    IN  IF c = NoByte THEN l1
        ELSE IF l1.token = 0
        THEN IF c = DOT THEN XNextLoop([l1 EXCEPT !.token = XToken_SELF])
             ELSE IF c = SLASH THEN XNextLoop([Put(l1, c) EXCEPT !.token = XToken_CHILD])
             ELSE IF c = WILDCARD THEN [Put(l1, c) EXCEPT !.token = XToken_WILDCARD]
             ELSE IF c = OPEN_BRACK THEN ReadFilter([l1 EXCEPT !.token = XToken_FILTER])
             ELSE BaseReadWord([Put(l1, c) EXCEPT !.token = XToken_NODE], XSPECIAL)
        ELSE IF l1.token = XToken_CHILD
        THEN IF c = SLASH THEN [Put(l1, c) EXCEPT !.token = XToken_DECENDANT]
             ELSE LET l2 == Unread(l1, <<c>>) IN
                  IF l2.err # "none" THEN l2
                  ELSE LET l3 == XExprAhead(l2) IN
                       IF l3.found THEN [l3 EXCEPT !.token = XToken_SELF] ELSE l3
        ELSE IF c = DOT THEN XNextLoop([Put(l1, c) EXCEPT !.token = XToken_PARENT])
        ELSE Unread(l1, <<c>>)

\* XLexer._next after its loop: a NODE that cannot be a tag is given back
\* and read as a filter or as an expression
XConvert(l) ==
    IF l.err = "none" /\ l.token = XToken_NODE /\ ~IsAlnum(l.value)
    THEN LET l1 == Reread([l EXCEPT !.value = <<>>], l.value) IN
         IF l1.err # "none" THEN l1
         ELSE IF l1.char = OPEN_BRACK
              THEN ReadFilter([l1 EXCEPT !.token = XToken_FILTER])
              ELSE XReadExpression([l1 EXCEPT !.token = XToken_EXPRESSION], <<>>)
    ELSE l

\* XLexer._next: a value that ends with () makes a FUNCTION
XLexerNext(l) ==
    LET l0 == [l EXCEPT !.token = 0, !.value = <<>>, !.found = FALSE,
                        !.at = <<0, l.position>>]
        l1 == XConvert(XNextLoop(l0))
    IN  IF l1.err = "none" /\ l1.token # XToken_FILTER /\ EndsWith(l1.value, FUNC)
        THEN [l1 EXCEPT !.token = XToken_FUNCTION]
        ELSE l1

\* BaseLexer.next of an XLexer
XNext(l) ==
    LET l1 == XLexerNext(l) IN
    IF l1.err # "none" \/ IsNone(Result(l1)) THEN l1
    ELSE [l1 EXCEPT !.last_token = l1.token]

\* ELexer.read_expression: up to the parenthesis that closes the call
RECURSIVE EReadExpression(_, _)
EReadExpression(l, parens) ==
    LET l1 == ReadByte(l)
        c  == l1.char
    IN  IF c = NoByte THEN l1
        ELSE IF c \in QUOTES
             THEN EReadExpression(Put(ReadQuote(Put(l1, c), c), c), parens)
        ELSE IF c = OPEN_PAREN THEN EReadExpression(Put(l1, c), parens + 1)
        ELSE IF c = CLOSE_PAREN
             THEN IF parens = 1 THEN l1 ELSE EReadExpression(Put(l1, c), parens - 1)
        ELSE EReadExpression(Put(l1, c), parens)

\* ELexer.guess_token
EGuessToken(l, c) ==
    IF c = ATSYM THEN [BaseReadWord(l, ESPECIAL) EXCEPT !.token = EToken_VARIABLE]
    ELSE IF c = COMMA THEN [l EXCEPT !.token = EToken_COMMA]
    ELSE IF c = EQUALS THEN [l EXCEPT !.token = EToken_EQUALS]
    ELSE IF c = LESSTHAN THEN [l EXCEPT !.token = EToken_LT]
    ELSE IF c = GREATERTHAN THEN [l EXCEPT !.token = EToken_GT]
    ELSE IF c = OPEN_PAREN
         THEN [EReadExpression(l, 1) EXCEPT !.token = EToken_EXPRESSION]
    ELSE IF c \in DIGIT
         THEN [BaseReadWord(Put(l, c), ESPECIAL) EXCEPT !.token = EToken_INTEGER]
    ELSE IF c \in QUOTES THEN [ReadQuote(l, c) EXCEPT !.token = EToken_STRING]
    ELSE Put(l, c)

\* the loop of ELexer._next
RECURSIVE ENextLoop(_)
ENextLoop(l) ==
    LET l1 == ReadByte(l)
        c  == l1.char
    IN  IF c = NoByte \/ c \in SPACES THEN l1
        ELSE IF l1.token = 0 /\ l1.value = <<>>
        THEN LET g == EGuessToken(l1, c) IN
             IF g.err # "none" THEN g
             ELSE IF g.token # 0 /\ g.token <= EToken_EQUALS THEN SkipSpaces(g)
             ELSE ENextLoop(g)
        ELSE IF l1.token \in {EToken_LT, EToken_GT}
        THEN SkipSpaces(IF c = EQUALS
                        THEN [l1 EXCEPT !.token = IF @ = EToken_LT THEN EToken_LTE
                                                   ELSE EToken_GTE]
                        ELSE Unread(l1, <<c>>))
        ELSE IF c = OPEN_PAREN
        THEN Unread([l1 EXCEPT !.token = EToken_FUNCTION], <<c>>)
        ELSE ENextLoop(Put(l1, c))

\* ELexer._next after its loop: the words that are operators or booleans
EConvert(l) ==
    IF l.err # "none" \/ l.token # 0 THEN l
    ELSE IF l.value = AND THEN [l EXCEPT !.token = EToken_AND]
    ELSE IF l.value = OR THEN [l EXCEPT !.token = EToken_OR]
    ELSE IF l.value \in {TRUE_BYTES, FALSE_BYTES} THEN [l EXCEPT !.token = EToken_BOOLEAN]
    ELSE l

\* BaseLexer.next of an ELexer
ENext(l) ==
    LET l0 == [l EXCEPT !.token = 0, !.value = <<>>, !.at = <<0, l.position>>]
        l1 == EConvert(ENextLoop(l0))
    IN  IF l1.err # "none" \/ IsNone(Result(l1)) THEN l1
        ELSE [l1 EXCEPT !.last_token = l1.token]

(***************************************************************************)
(* XPath expressions (pyxml/xpath/engine.py, pyxml/xpath/functions.py):    *)
(* a compiled expression is a term, evaluated on an element of a document  *)
(***************************************************************************)
\* re_var.match(expr): ^@\w+$, where $ also matches before a last newline
ReVar(expr) ==
    LET word == IF expr # <<>> /\ expr[Len(expr)] = NEWLINE
                THEN SubSeq(expr, 2, Len(expr) - 1)
                ELSE SubSeq(expr, 2, Len(expr))
    IN  /\ Len(expr) >= 2
        /\ expr[1] = ATSYM
        /\ word # <<>>
        /\ \A i \in 1..Len(word) : word[i] \in WORD

\* Optional[Result]
NoAction == [some |-> FALSE, token |-> 0, value |-> <<>>]
Action(token, value) == [some |-> TRUE, token |-> token, value |-> value]

\* the keys of BUILTIN and of FUNCTIONS
BUILTIN == {EToken_EQUALS, EToken_OR, EToken_AND, EToken_LT, EToken_LTE,
            EToken_GT, EToken_GTE}
FUNCTIONS ==
    {<<"i", "n", "d", "e", "x">>, <<"n", "a", "m", "e">>, <<"t", "e", "x", "t">>,
     <<"c", "o", "u", "n", "t">>, <<"p", "o", "s", "i", "t", "i", "o", "n">>,
     <<"n", "o", "t">>, <<"c", "o", "n", "t", "a", "i", "n", "s">>,
     <<"s", "t", "a", "r", "t", "s", "-", "w", "i", "t", "h">>,
     <<"e", "n", "d", "s", "-", "w", "i", "t", "h">>,
     <<"s", "u", "b", "s", "t", "r", "i", "n", "g">>,
     <<"s", "u", "b", "s", "t", "r", "i", "n", "g", "-", "b", "e", "f", "o", "r", "e">>,
     <<"s", "u", "b", "s", "t", "r", "i", "n", "g", "-", "a", "f", "t", "e", "r">>,
     <<"t", "r", "a", "n", "s", "l", "a", "t", "e">>,
     <<"l", "o", "w", "e", "r", "-", "c", "a", "s", "e">>,
     <<"u", "p", "p", "e", "r", "-", "c", "a", "s", "e">>,
     <<"l", "a", "s", "t">>}

\* compile_action finds a function for the action
Supported(action) ==
    \/ action.token \in BUILTIN
    \/ action.token = EToken_FUNCTION /\ action.value \in FUNCTIONS

\* the terms: the getter of compile_argument, the getter of wrap_expr, the
\* wrapper of compile_action, and `lambda _: False`
ArgTerm(res) == [k |-> "arg", token |-> res.token, value |-> res.value]
WrapTerm(f) == [k |-> "wrap", f |-> f]
CallTerm(action, args) ==
    [k |-> "call", token |-> action.token, name |-> action.value, args |-> args]
FalseTerm == [k |-> "false"]

\* compile_expr: the loop over the tokens of the expression, and the whole
RECURSIVE CompileLoop(_, _)
RECURSIVE compile_expr(_, _)
\* the branches of a token below EQUALS: an argument is compiled, the
\* arguments sub of an expression are added, a comma is passed
Argued(c, res, sub) ==
    IF res.token <= EToken_VARIABLE
    THEN [c EXCEPT !.args = Append(@, ArgTerm(res))]
    ELSE IF res.token = EToken_EXPRESSION
    THEN IF sub.err # "none" THEN [c EXCEPT !.err = sub.err]
         ELSE IF sub.action.some THEN [c EXCEPT !.err = "ValueError"]
         ELSE [c EXCEPT !.args = @ \o sub.args]
    ELSE c

\* `if action:` after them: the action is compiled over the arguments
Acted(c, pure) ==
    IF c.err # "none" THEN c
    ELSE IF ~c.action.some THEN CompileLoop(c, pure)
    ELSE IF ~Supported(c.action) THEN [c EXCEPT !.err = "ValueError"]
    ELSE CompileLoop(
            [c EXCEPT !.compiled = CallTerm(c.action, c.args),
                      !.args = <<WrapTerm(CallTerm(c.action, c.args))>>,
                      !.action = NoAction], pure)

\* the body of the loop for the lexer l1 after lexer.next()
Compiling(c, pure, l1) ==
    IF l1.err # "none" THEN [c EXCEPT !.l = l1, !.err = l1.err]
    ELSE IF IsNone(Result(l1)) THEN [c EXCEPT !.l = l1]
    ELSE IF l1.token >= EToken_EQUALS
    THEN CompileLoop([c EXCEPT !.l = l1, !.action = Action(l1.token, l1.value)], pure)
    ELSE Acted(Argued([c EXCEPT !.l = l1], Result(l1),
                      IF l1.token = EToken_EXPRESSION
                      THEN compile_expr(l1.value, pure) ELSE c), pure)

CompileLoop(c, pure) == Compiling(c, pure, ENext(c.l))

compile_expr(expr, pure) ==
    CompileLoop(
        [l |-> NewLexer(expr), args |-> <<>>, compiled |-> FalseTerm, err |-> "none",
         action |-> IF pure /\ ReVar(expr)
                    THEN Action(EToken_FUNCTION, <<"n", "o", "t", "e", "m", "p", "t", "y">>)
                    ELSE IF IsDigit(expr)
                    THEN Action(EToken_FUNCTION, <<"i", "n", "d", "e", "x">>)
                    ELSE NoAction], pure)

\* compile_expr_func
Complete(c) ==
    IF c.err = "none" /\ c.action.some /\ c.args # <<>>
    THEN [c EXCEPT !.err = "ValueError"]
    ELSE c
compile_expr_func(expr, pure) == Complete(compile_expr(expr, pure))

\* the values of Python: bool, int, str
BoolValue(v) == [t |-> "bool", v |-> v]
IntValue(v) == [t |-> "int", v |-> v]
StrValue(v) == [t |-> "str", v |-> v]
\* the outcome of an evaluation: a value, or the exception raised
Ok(v) == [err |-> "none", v |-> v]
Raises(e) == [err |-> e, v |-> BoolValue(FALSE)]

\* wrap_expr: the value of an expression as the str of an ArgValue
ArgValue(raw) ==
    IF raw.t = "bool"
    THEN (IF raw.v THEN <<"t", "r", "u", "e">> ELSE <<"f", "a", "l", "s", "e">>)
    ELSE IF raw.t = "int" THEN IntToStr(raw.v)
    ELSE raw.v

\* the truth value of a value of Python
IsTrue(raw) ==
    IF raw.t = "bool" THEN raw.v
    ELSE IF raw.t = "int" THEN raw.v # 0
    ELSE raw.v # <<>>

\* str.find: the 0-based index of the first occurrence, -1 when there is none
Find(s, sub) ==
    IF \E i \in 0..(Len(s) - Len(sub)) : SubSeq(s, i + 1, i + Len(sub)) = sub
    THEN CHOOSE i \in 0..(Len(s) - Len(sub)) :
            /\ SubSeq(s, i + 1, i + Len(sub)) = sub
            /\ \A j \in 0..(i - 1) : SubSeq(s, j + 1, j + Len(sub)) # sub
    ELSE -1

\* s[i:j] for i, j that are not negative
Slice(s, i, j) ==
    LET stop == IF j < Len(s) THEN j ELSE Len(s) IN
    IF i >= stop THEN <<>> ELSE SubSeq(s, i + 1, stop)

\* str.replace(from, to): an empty from matches before every character and
\* at the end
RECURSIVE Interleave(_, _)
Interleave(s, to) ==
    IF s = <<>> THEN to ELSE to \o <<Head(s)>> \o Interleave(Tail(s), to)
StrReplace(s, from, to) ==
    IF from = <<>> THEN Interleave(s, to) ELSE Replace(s, from, to)


\* list.index(e): the 0-based index of e among the children of its parent
ChildIndex(es, e) ==
    (CHOOSE i \in 1..Len(es[es[e].parent].children) :
        /\ es[es[e].parent].children[i] = e
        /\ \A j \in 1..(i - 1) : es[es[e].parent].children[j] # e) - 1

\* text(e): the text of e and the tails of its children
RECURSIVE Tails(_, _, _)
Tails(es, kids, i) ==
    IF i > Len(kids) THEN <<>>
    ELSE (IF Truthy(es[kids[i]].tail) THEN <<" ">> \o es[kids[i]].tail.s ELSE <<>>)
         \o Tails(es, kids, i + 1)

\* `if e.parent:` in position and last: the truth value of an Element raises
ElementBool(es, e) == Raises("NotImplementedError")

\* get_int of an ArgValue
NotInt(s) == ~IsDigit(s)

\* the number of arguments the function of an action takes after the element
Arity(token, name) ==
    IF token # EToken_FUNCTION THEN 2
    ELSE IF name \in {<<"n", "a", "m", "e">>, <<"t", "e", "x", "t">>,
                      <<"p", "o", "s", "i", "t", "i", "o", "n">>, <<"l", "a", "s", "t">>}
    THEN 0
    ELSE IF name \in {<<"s", "u", "b", "s", "t", "r", "i", "n", "g">>,
                      <<"t", "r", "a", "n", "s", "l", "a", "t", "e">>}
    THEN 3
    ELSE IF name \in {<<"i", "n", "d", "e", "x">>, <<"c", "o", "u", "n", "t">>,
                      <<"n", "o", "t">>,
                      <<"l", "o", "w", "e", "r", "-", "c", "a", "s", "e">>,
                      <<"u", "p", "p", "e", "r", "-", "c", "a", "s", "e">>}
    THEN 1
    ELSE 2

\* the functions of BUILTIN, on the str values a and b of their ArgValues:
\* get_value of an ArgValue made by wrap_expr is `arg.value == b'true'`, a
\* str against bytes, which is False
Builtin(token, a, b) ==
    IF token = EToken_EQUALS THEN Ok(BoolValue(a = b))
    ELSE IF token \in {EToken_OR, EToken_AND} THEN Ok(BoolValue(FALSE))
    ELSE IF NotInt(a) \/ NotInt(b) THEN Raises("ValueError")
    ELSE IF token = EToken_LT THEN Ok(BoolValue(StrToInt(a) < StrToInt(b)))
    ELSE IF token = EToken_LTE THEN Ok(BoolValue(StrToInt(a) <= StrToInt(b)))
    ELSE IF token = EToken_GT THEN Ok(BoolValue(StrToInt(a) > StrToInt(b)))
    ELSE Ok(BoolValue(StrToInt(a) >= StrToInt(b)))

\* the functions of FUNCTIONS, on element e of the heap es and the str values
\* of their ArgValues
Function(name, es, e, a) ==
    IF name = <<"i", "n", "d", "e", "x">>
    THEN IF NotInt(a[1]) THEN Raises("ValueError")
         ELSE IF es[e].parent = 0 THEN Raises("AttributeError")
         ELSE Ok(BoolValue(ChildIndex(es, e) + 1 = StrToInt(a[1])))
    ELSE IF name = <<"n", "a", "m", "e">> THEN Ok(StrValue(es[e].tag))
    ELSE IF name = <<"t", "e", "x", "t">>
    THEN Ok(StrValue((IF Truthy(es[e].text) THEN es[e].text.s ELSE <<>>)
                     \o Tails(es, es[e].children, 1)))
    ELSE IF name = <<"c", "o", "u", "n", "t">>
    THEN Ok(IntValue(Cardinality({i \in 1..Len(es[e].children) :
                                es[es[e].children[i]].tag = a[1]})))
    ELSE IF name = <<"p", "o", "s", "i", "t", "i", "o", "n">>
    THEN IF es[e].parent = 0 THEN Ok(IntValue(0)) ELSE ElementBool(es, es[e].parent)
    ELSE IF name = <<"l", "a", "s", "t">>
    THEN IF es[e].parent = 0 THEN Ok(BoolValue(TRUE)) ELSE ElementBool(es, es[e].parent)
    ELSE IF name = <<"n", "o", "t">>
    THEN IF a[1] \notin {<<"0">>, <<"1">>, <<"t", "r", "u", "e">>,
                         <<"f", "a", "l", "s", "e">>}
         THEN Raises("ValueError")
         ELSE Ok(BoolValue(a[1] \notin {<<"1">>, <<"t", "r", "u", "e">>}))
    ELSE IF name = <<"c", "o", "n", "t", "a", "i", "n", "s">>
    THEN Ok(BoolValue(Find(a[1], a[2]) >= 0))
    ELSE IF name = <<"s", "t", "a", "r", "t", "s", "-", "w", "i", "t", "h">>
    THEN Ok(BoolValue(StartsWith(a[1], a[2])))
    ELSE IF name = <<"e", "n", "d", "s", "-", "w", "i", "t", "h">>
    THEN Ok(BoolValue(EndsWith(a[1], a[2])))
    ELSE IF name = <<"s", "u", "b", "s", "t", "r", "i", "n", "g">>
    THEN IF NotInt(a[2]) \/ NotInt(a[3]) THEN Raises("ValueError")
         ELSE Ok(StrValue(Slice(a[1], StrToInt(a[2]), StrToInt(a[3]))))
    ELSE IF name = <<"s", "u", "b", "s", "t", "r", "i", "n", "g", "-", "b", "e", "f", "o", "r", "e">>
    THEN Ok(StrValue(Slice(a[1], 0, IF Find(a[1], a[2]) >= 0 THEN Find(a[1], a[2])
                                    ELSE Len(a[1]))))
    ELSE IF name = <<"s", "u", "b", "s", "t", "r", "i", "n", "g", "-", "a", "f", "t", "e", "r">>
    THEN Ok(StrValue(Slice(a[1], IF Find(a[1], a[2]) >= 0 THEN Find(a[1], a[2])
                                 ELSE Len(a[1]), Len(a[1]))))
    ELSE IF name = <<"t", "r", "a", "n", "s", "l", "a", "t", "e">>
    THEN Ok(StrValue(StrReplace(a[1], a[2], a[3])))
    ELSE IF name = <<"l", "o", "w", "e", "r", "-", "c", "a", "s", "e">>
    THEN Ok(StrValue(Lower(a[1])))
    ELSE Ok(StrValue(Upper(a[1])))

\* the evaluation of a compiled expression on element e: the getters are
\* called in order, then the function
RECURSIVE Eval(_, _, _)
RECURSIVE Getters(_, _, _, _)
\* a list of outcomes: the outcome raw, then the outcomes rest
Cons(raw, rest) ==
    IF raw.err # "none" THEN [err |-> raw.err, v |-> <<>>]
    ELSE IF rest.err # "none" THEN rest
    ELSE [err |-> "none", v |-> <<raw.v>> \o rest.v]

\* wrap_expr's getter on the outcome of its expression
Wrapped(raw) == IF raw.err # "none" THEN raw ELSE Ok(ArgValue(raw.v))

\* the getters args[i..] on e: the str values of their ArgValues. A getter
\* of compile_argument unpacks the four fields of its Result into two names
Getters(args, es, e, i) ==
    IF i > Len(args) THEN [err |-> "none", v |-> <<>>]
    ELSE IF args[i].k = "arg" THEN [err |-> "ValueError", v |-> <<>>]
    ELSE Cons(Wrapped(Eval(args[i].f, es, e)),
              Getters(args, es, e, i + 1))

\* compile_action's wrapper on the outcome a of its getters
Applied(term, es, e, a) ==
    IF a.err # "none" THEN Raises(a.err)
    ELSE IF Len(a.v) # Arity(term.token, term.name) THEN Raises("TypeError")
    ELSE IF term.token # EToken_FUNCTION THEN Builtin(term.token, a.v[1], a.v[2])
    ELSE Function(term.name, es, e, a.v)

Eval(term, es, e) ==
    IF term.k = "false" THEN Ok(BoolValue(FALSE))
    ELSE Applied(term, es, e, Getters(term.args, es, e, 1))

\* [expr(e) for e in ns]: the values, up to the first exception
RECURSIVE EvalEach(_, _, _, _)
EvalEach(term, es, ns, i) ==
    IF i > Len(ns) THEN [err |-> "none", v |-> <<>>]
    ELSE Cons(Eval(term, es, ns[i]), EvalEach(term, es, ns, i + 1))

(***************************************************************************)
(* iter_xpath (pyxml/xpath/engine.py) and the functions of the package     *)
(* over it (pyxml/xpath/__init__.py, xml/xpath/engine.py)                  *)
(***************************************************************************)
\* Optional[List[Any]]
NoValues == [some |-> FALSE, list |-> <<>>]
Values(list) == [some |-> TRUE, list |-> list]

\* an element of a result, beside the values of Python
Elem(e) == [t |-> "elem", v |-> e]
Elems(ns) == [i \in 1..Len(ns) |-> Elem(ns[i])]

\* [c for e in elements for c in e]
RECURSIVE Children(_, _, _)
Children(es, ns, i) ==
    IF i > Len(ns) THEN <<>>
    ELSE es[ns[i]].children \o Children(es, ns, i + 1)

\* [c for e in elements for c in e.iter()]
RECURSIVE Decendants(_, _, _)
Decendants(es, ns, i) ==
    IF i > Len(ns) THEN <<>>
    ELSE Iter(es, ns[i]) \o Decendants(es, ns, i + 1)

\* a faulty filter_tag: the matches come out last first
FilterTagReversed(es, ns, tag) ==
    LET kept == SelectSeq(ns, LAMBDA e : es[e].tag = tag) IN
    [i \in 1..Len(kept) |-> kept[Len(kept) + 1 - i]]

\* filter_tag
filter_tag(es, ns, tag) == SelectSeq(ns, LAMBDA e : es[e].tag = tag)

\* get_parent: 0 is None
RECURSIVE get_parent(_, _, _)
get_parent(es, e, parents) ==
    IF parents = 0 THEN e
    ELSE IF es[e].parent = 0 THEN 0
    ELSE get_parent(es, es[e].parent, parents - 1)

\* [p for p in parents if p is not None]
Parents(es, ns, parents) ==
    SelectSeq([i \in 1..Len(ns) |-> get_parent(es, ns[i], parents)],
              LAMBDA p : p # 0)

\* [e for e in elements if expr(e)], given the values of expr on the elements
RECURSIVE Kept(_, _, _)
Kept(ns, vals, i) ==
    IF i > Len(ns) THEN <<>>
    ELSE (IF IsTrue(vals[i]) THEN <<ns[i]>> ELSE <<>>) \o Kept(ns, vals, i + 1)

\* the branches of the loop of iter_xpath for the Result res, on
\* st = [elements, values, err], given the compiled expression c of a
\* filter, expression or function and its values each on the targets
Branch(st, es, res, pure, targets, c, each) ==
    IF st.values.some /\ st.values.list # <<>>
    THEN [st EXCEPT !.err = "ValueError"]
    ELSE IF res.token = XToken_CHILD
    THEN [st EXCEPT !.elements = Children(es, @, 1)]
    ELSE IF res.token = XToken_DECENDANT
    THEN [st EXCEPT !.elements = Decendants(es, @, 1)]
    ELSE IF res.token = XToken_NODE
    THEN [st EXCEPT !.elements = filter_tag(es, @, Decode(res.value))]
    ELSE IF res.token \in {XToken_WILDCARD, XToken_SELF} THEN st
    ELSE IF res.token = XToken_PARENT
    THEN [st EXCEPT !.elements = Parents(es, @, Len(res.value))]
    ELSE IF res.token = XToken_FILTER
    THEN IF c.err # "none" THEN [st EXCEPT !.err = c.err]
         ELSE IF each.err # "none" THEN [st EXCEPT !.err = each.err]
         ELSE [st EXCEPT !.elements = Kept(@, each.v, 1)]
    ELSE IF pure /\ res.token \in {XToken_EXPRESSION, XToken_FUNCTION}
    THEN [st EXCEPT !.err = "ValueError"]
    ELSE IF res.token = XToken_EXPRESSION
    THEN IF c.err # "none" THEN [st EXCEPT !.err = c.err]
         ELSE IF c.action.some
         THEN IF each.err # "none" THEN [st EXCEPT !.err = each.err]
              ELSE [st EXCEPT !.values = Values(each.v)]
         ELSE IF c.args = <<>> THEN [st EXCEPT !.err = "IndexError"]
         \* get_value is not a name of the module
         ELSE IF targets # <<>> THEN [st EXCEPT !.err = "NameError"]
         ELSE [st EXCEPT !.values = Values(<<>>)]
    ELSE IF res.token = XToken_FUNCTION
    THEN IF c.err # "none" THEN [st EXCEPT !.err = c.err]
         ELSE IF each.err # "none" THEN [st EXCEPT !.err = each.err]
         ELSE [st EXCEPT !.values = Values(each.v)]
    ELSE [st EXCEPT !.err = "ValueError"]

\* the elements or values an expression is evaluated on
Targets(st, res) ==
    IF res.token = XToken_FILTER \/ ~st.values.some
    THEN st.elements ELSE st.values.list

\* compile_expr_func for a filter and a function, compile_expr for an
\* expression
Compiled(res, c) == IF res.token = XToken_EXPRESSION THEN c ELSE Complete(c)

Evaluated(st, es, res, pure, c) ==
    Branch(st, es, res, pure, Targets(st, res), c,
           EvalEach(c.compiled, es, Targets(st, res), 1))

\* the body of the loop of iter_xpath for the Result res
Step(st, es, res, pure) ==
    Evaluated(st, es, res, pure,
              Compiled(res, compile_expr(res.value, res.token # XToken_EXPRESSION)))

\* iter(values or elements)
Returned(st) ==
    IF st.values.some /\ st.values.list # <<>> THEN st.values.list
    ELSE Elems(st.elements)

\* what a call gave: the exception raised, or the value returned
NotCalled == [called |-> FALSE, err |-> "none", v |-> <<>>]
Gave(v) == [called |-> TRUE, err |-> "none", v |-> v]
Threw(e) == [called |-> TRUE, err |-> e, v |-> <<>>]

\* a faulty find_xpath: the last match
FindLast(run) ==
    IF run.err # "none" THEN Threw(run.err)
    ELSE IF run.v = <<>> THEN Gave(<<>>)
    ELSE Gave(<<run.v[Len(run.v)]>>)

\* find_xpath on the run of iter_xpath: <<>> is None, <<x>> is x
find_xpath(run) ==
    IF run.err # "none" THEN Threw(run.err)
    ELSE IF run.v = <<>> THEN Gave(<<>>)
    ELSE Gave(<<Head(run.v)>>)

\* list_xpath on the run of iter_xpath
list_xpath(run) ==
    IF run.err # "none" THEN Threw(run.err) ELSE Gave(run.v)

\* findtext: `match.text` of a match that is not an Element raises
FindText(es, run, default) ==
    LET match == find_xpath(run) IN
    IF match.err # "none" THEN match
    ELSE IF match.v = <<>> THEN Gave(default)
    ELSE IF match.v[1].t # "elem" THEN Threw("AttributeError")
    ELSE IF ~Truthy(es[match.v[1].v].text) THEN Gave(Str(<<>>))
    ELSE Gave(es[match.v[1].v].text)

(***************************************************************************)
(* The XPath specification: iter_xpath on the elements of a document, one  *)
(* pass of its loop at a time, and then find, findall, iterfind and        *)
(* findtext on the same path and element                                   *)
(***************************************************************************)
\* Element, with its attributes as the set of the pairs <<name, value>>
NewNode(tag, attrib, txt, tl, children, parent) ==
    [tag |-> tag, attrib |-> attrib, text |-> txt, tail |-> tl,
     children |-> children, parent |-> parent]

\* attrib.get(name, '')
AttribGet(e, name) ==
    IF \E p \in e.attrib : p[1] = name
    THEN (CHOOSE p \in e.attrib : p[1] = name)[2]
    ELSE <<>>

\* the document <d><h c="x">T</h>w<p>u</p><p c="">v</p></d>
Document ==
    <<NewNode(<<"d">>, {}, None, None, <<2, 3, 4>>, 0),
      NewNode(<<"h">>, {<<(<<"c">>), (<<"x">>)>>}, Str(<<"T">>), Str(<<"w">>), <<>>, 1),
      NewNode(<<"p">>, {}, Str(<<"u">>), None, <<>>, 1),
      NewNode(<<"p">>, {<<(<<"c">>), (<<>>)>>}, Str(<<"v">>), None, <<>>, 1)>>

\* the elements a path is evaluated from: the root and a child
Contexts == {1, 2}

\* the location steps a path starts with
Locations ==
    {<<>>,
     <<"/">>,
     <<"/", "/">>,
     <<"/", "*">>,
     <<"/", "/", "p">>,
     <<"/", "p">>,
     <<"/", "z">>,
     <<"/", "h">>,
     <<".">>,
     <<"/", "h", "/", ".", ".">>,
     <<"/", "/", "*">>}

\* the filter that may follow them
Filters ==
    {<<>>,
     <<"[", "1", "]">>,
     <<"[", "2", "]">>,
     <<"[", "@", "c", "]">>,
     <<"[", "p", "o", "s", "i", "t", "i", "o", "n", "(", ")", "]">>,
     <<"[", "n", "a", "m", "e", "(", ")", "]">>,
     <<"[", "l", "a", "s", "t", "(", ")", "]">>,
     <<"[", "t", "e", "x", "t", "(", ")", "]">>,
     <<"[", "(", "n", "a", "m", "e", "(", ")", ")", " ", "a", "n", "d", " ",
       "(", "n", "a", "m", "e", "(", ")", ")", "]">>,
     <<"[", "(", "n", "a", "m", "e", "(", ")", ")", " ", "o", "r", " ",
       "(", "t", "e", "x", "t", "(", ")", ")", "]">>}

\* the expression or function step that may end the path
Terminals ==
    {<<>>,
     <<"/", "@", "c">>,
     <<"/", "t", "e", "x", "t", "(", ")">>,
     <<")", "n", "a", "m", "e", "(">>,
     <<")", "p", "o", "s", "i", "t", "i", "o", "n", "(">>,
     <<"/", "p", "o", "s", "i", "t", "i", "o", "n", "(", ")">>,
     <<"/", "u", "p", "p", "e", "r", "-", "c", "a", "s", "e", "(", "t", "e", "x", "t", "(", ")", ")">>}

\* a step that may follow it
Followers ==
    {<<>>,
     <<" ", " ", "[", "1", "]">>,
     <<"/", "p">>,
     <<" ", "/", "p">>}

\* the default of findtext
Defaults == {None, Str(<<"n", "o">>)}

XPathInputs ==
    {a \o b \o c \o d : a \in Locations, b \in Filters, c \in Terminals, d \in Followers}


\* iter_xpath(path, [elem]) is entered: pure is False
InitXPath ==
    /\ xpath \in XPathInputs
    /\ context \in Contexts
    /\ xlexer = NewLexer(xpath)
    /\ elements = <<context>>
    /\ values = NoValues
    /\ xret = NotCalled
    /\ xop = "enter"
    /\ calls = [name \in {"find", "findall", "iterfind", "findtext"} |-> NotCalled]
    /\ BuilderIdle /\ ElementIdle /\ ReaderIdle /\ LexerIdle /\ SerializerIdle /\ SourceIdle

\* iter_xpath after the branch of a Result: st is its state
Stepped(st) ==
    /\ elements' = st.elements
    /\ values' = st.values
    /\ xop' = IF st.err = "none" THEN "for" ELSE "raise"
    /\ xret' = IF st.err = "none" THEN xret ELSE Threw(st.err)

\* iter_xpath after lexer.next(): l1 is the lexer
Lexed(l1) ==
    /\ xlexer' = l1
    /\ IF l1.err # "none"
       THEN /\ xop' = "raise"
            /\ xret' = Threw(l1.err)
            /\ UNCHANGED <<elements, values>>
       ELSE IF IsNone(Result(l1))
       THEN /\ xop' = "return"
            /\ xret' = Gave(Returned([elements |-> elements, values |-> values]))
            /\ UNCHANGED <<elements, values>>
       ELSE Stepped(Step([elements |-> elements, values |-> values, err |-> "none"],
                         Document, Result(l1), FALSE))

\* one pass of the loop of iter_xpath: the next Result of the lexer and the
\* branch of its token, or the return when the lexer has no more
iter_xpath ==
    /\ xop \in {"enter", "for"}
    /\ Lexed(XNext(xlexer))
    /\ UNCHANGED <<xpath, context, calls>>
    /\ UNCHANGED <<bvars, evars, rvars, lvars, svars, pvars>>

\* a function of the package is called with the same path and element, once
\* iter_xpath has run: its own run of iter_xpath is the same run
Called(name, result) ==
    /\ xop \in {"return", "raise"}
    /\ ~calls[name].called
    /\ calls' = [calls EXCEPT ![name] = result]
    /\ UNCHANGED <<xpath, context, xlexer, elements, values, xret, xop>>
    /\ UNCHANGED <<bvars, evars, rvars, lvars, svars, pvars>>

iterfind == Called("iterfind", xret)
find == Called("find", find_xpath(xret))
findall == Called("findall", list_xpath(xret))
findtext == \E default \in Defaults :
    LET r == FindText(Document, xret, default) IN
    Called("findtext", [called |-> TRUE, err |-> r.err, v |-> r.v, default |-> default])

NextXPath ==
    \/ iter_xpath
    \/ iterfind
    \/ find
    \/ findall
    \/ findtext

SpecXPath == InitXPath /\ [][NextXPath]_vars

\* the value a terminal step is to give on element e: the attribute c, the
\* text, the 0-based index among the siblings, the text in upper case
Projected(t, e) ==
    IF t = <<"/", "@", "c">> THEN StrValue(AttribGet(Document[e], <<"c">>))
    ELSE IF t = <<"/", "t", "e", "x", "t", "(", ")">> THEN Function(<<"t", "e", "x", "t">>, Document, e, <<>>).v
    ELSE IF t = <<"/", "p", "o", "s", "i", "t", "i", "o", "n", "(", ")">>
    THEN IntValue(IF Document[e].parent = 0 THEN 0 ELSE ChildIndex(Document, e))
    ELSE StrValue(Upper(Function(<<"t", "e", "x", "t">>, Document, e, <<>>).v.v))

\* the terminal steps that are an attribute or a call of a function
Projections ==
    {<<"/", "@", "c">>,
     <<"/", "t", "e", "x", "t", "(", ")">>,
     <<"/", "p", "o", "s", "i", "t", "i", "o", "n", "(", ")">>,
     <<"/", "u", "p", "p", "e", "r", "-", "c", "a", "s", "e", "(", "t", "e", "x", "t", "(", ")", ")">>}

\* C15: when a path of location steps ends with an EXPRESSION or FUNCTION
\* step (@c, text(), position(), upper-case(text())), iter_xpath returns,
\* for the elements that survived the location steps, in order, the value of
\* that expression on each: the attribute value, or the result of the call
C15_TerminalProjects ==
    \A t \in Projections :
        (xop \in {"return", "raise"} /\ \E a \in Locations : xpath = a \o t)
            => xret = Gave([i \in 1..Len(elements) |-> Projected(t, elements[i])])

\* a pass of the loop of iter_xpath took a FILTER with the content value
FilterPass(value) ==
    /\ xop \in {"enter", "for"}
    /\ xlexer'.err = "none"
    /\ xlexer'.token = XToken_FILTER
    /\ xlexer'.value = value

\* C16: a filter whose whole content is @c compiles, and keeps exactly the
\* elements whose attribute c is present with a value that is not empty
C16_AttrFilterKeepsNotEmpty ==
    [][FilterPass(<<"@", "c">>) =>
         /\ xop' = "for"
         /\ elements' = SelectSeq(elements,
                LAMBDA e : AttribGet(Document[e], <<"c">>) # <<>>)]_vars

\* a pass of the loop of iter_xpath took a FUNCTION with the content value,
\* with no values before it
FunctionPass(value) ==
    /\ xop \in {"enter", "for"}
    /\ xlexer'.err = "none"
    /\ xlexer'.token = XToken_FUNCTION
    /\ xlexer'.value = value
    /\ ~values.some

\* the 0-based index of e among the children of its parent, 0 without one
Position(e) == IF Document[e].parent = 0 THEN 0 ELSE ChildIndex(Document, e)

\* C17: position() is, on every element, the 0-based index of the element
\* among the children of its parent, and 0 on an element without a parent:
\* as a function step it gives these indexes, as a filter it keeps the
\* elements whose index is not 0
C17_PositionIsIndex ==
    [][/\ FunctionPass(<<"p", "o", "s", "i", "t", "i", "o", "n", "(", ")">>) =>
            /\ xop' = "for"
            /\ values' = Values([i \in 1..Len(elements) |->
                                    IntValue(Position(elements[i]))])
       /\ FilterPass(<<"p", "o", "s", "i", "t", "i", "o", "n", "(", ")">>) =>
            /\ xop' = "for"
            /\ elements' = SelectSeq(elements, LAMBDA e : Position(e) # 0)]_vars

\* the elements of ns that are the n-th child of their parent, counted from 1
NthChildren(ns, n) ==
    SelectSeq(ns, LAMBDA e : /\ Document[e].parent # 0
                             /\ ChildIndex(Document, e) + 1 = n)

\* C18: a filter whose whole content is the integer 1 or 2 keeps exactly the
\* elements that are the first or the second child of their parent, whatever
\* the elements it is applied to, the root without a parent among them
C18_IntegerFilterKeepsNth ==
    [][\A n \in 1..2 :
          FilterPass(IntToStr(n)) =>
             /\ xop' = "for"
             /\ elements' = NthChildren(elements, n)]_vars

C20_StepAfterTerminalRaises ==
    [][(/\ xop \in {"enter", "for"}
        /\ values.some
        /\ xlexer'.err = "none"
        /\ ~IsNone(Result(xlexer')))
          => xop' = "raise"]_vars

\* a pass of the loop of iter_xpath took the branch of the token and went on
BranchPass(token) ==
    /\ xop \in {"enter", "for"}
    /\ xlexer'.err = "none"
    /\ xlexer'.token = token
    /\ xop' = "for"

\* out holds elements of inp in the order they have in inp
InOrder(out, inp) ==
    \E f \in [1..Len(out) -> 1..Len(inp)] :
        /\ \A i \in 1..Len(out) : out[i] = inp[f[i]]
        /\ \A i \in 1..Len(out) : \A j \in 1..Len(out) : i < j => f[i] < f[j]

EscapedChars == {"&", "<", ">", "\"", "\r", "\n", "\t", "'"}
\* the characters of the texts that are escaped: those, the space, and what a
\* charref is made of
TextChars == EscapedChars \cup {" ", "#", "9", ";"}

\* texts that are themselves an entity reference or a character reference
References ==
    {<<"&", "l", "t", ";">>, <<"&", "#", "6", "5", ";">>, <<"&", "#", "9", ";">>}

\* a text is about to be escaped
InitEscape ==
    /\ plain \in Bodies(TextChars, MaxText) \cup References
    /\ escaped = <<>>
    /\ unescaped = [err |-> "none", v |-> <<>>]
    /\ first = [elems |-> <<>>, root |-> 0] /\ output = <<>>
    /\ content = <<>> /\ given = "none"
    /\ sop = "init"
    /\ BuilderIdle /\ ElementIdle /\ ReaderIdle /\ LexerIdle /\ XPathIdle /\ SourceIdle

\* escape_cdata(plain)
escape_cdata ==
    /\ sop = "init"
    /\ escaped' = EscapeCdata(plain)
    /\ sop' = "escape_cdata"
    /\ UNCHANGED <<plain, unescaped, first, output, content, given>>
    /\ UNCHANGED <<bvars, evars, rvars, lvars, xvars, pvars>>

\* escape_attrib(plain)
escape_attrib ==
    /\ sop = "init"
    /\ escaped' = EscapeAttrib(plain)
    /\ sop' = "escape_attrib"
    /\ UNCHANGED <<plain, unescaped, first, output, content, given>>
    /\ UNCHANGED <<bvars, evars, rvars, lvars, xvars, pvars>>

\* unescape(escaped): sop tells which function had escaped the text
unescape ==
    /\ sop \in {"escape_cdata", "escape_attrib"}
    /\ unescaped' = Unescaped(escaped)
    /\ sop' = IF sop = "escape_cdata" THEN "unescape_cdata" ELSE "unescape_attrib"
    /\ UNCHANGED <<plain, escaped, first, output, content, given>>
    /\ UNCHANGED <<bvars, evars, rvars, lvars, xvars, pvars>>

NextEscape ==
    \/ escape_cdata
    \/ escape_attrib
    \/ unescape

SpecEscape == InitEscape /\ [][NextEscape]_vars

\* C23: unescape(escape_attrib(s)) returns s for every string s over the
\* characters & < > " CR LF TAB and apostrophe
C23_AttribRoundTrip ==
    (sop = "unescape_attrib" /\ \A i \in 1..Len(plain) : plain[i] \in EscapedChars)
        => unescaped = [err |-> "none", v |-> plain]

C23_Witness ==
    /\ sop = "unescape_attrib"
    /\ plain = <<"&", "\n", "'">>
    /\ escaped = <<"&", "a", "m", "p", ";", "&", "#", "1", "0", ";",
                   "&", "#", "3", "9", ";">>
    /\ unescaped.v = plain

(***************************************************************************)
(* Properties of the tree builder: the synthetic root, text and tail,      *)
(* inline nodes                                                            *)
(***************************************************************************)
\* the elements of the heap es that Element.iter reaches from e
Reachable(es, e) == {Iter(es, e)[i] : i \in 1..Len(Iter(es, e))}

\* a call appends an element to a lenient builder that has a root and no
\* open element
AppendsBesideRoot ==
    /\ fix_broken /\ tree = <<>> /\ root # 0
    /\ err' = "none"
    /\ Len(elems') > Len(elems)

\* C25: in lenient mode, an element appended while no element is open and a
\* root exists goes under a new element tagged document, whose children are
\* the old root, then the new element; the new element is the root, and every
\* element built before is reachable from it
C25_SyntheticRoot ==
    [][AppendsBesideRoot =>
        LET elem == Len(elems) + 1
            newroot == Len(elems) + 2
        IN  /\ Len(elems') = newroot
            /\ elems'[newroot].tag = "document"
            /\ elems'[newroot].children = <<root, elem>>
            /\ elems'[root].parent = newroot
            /\ elems'[elem].parent = newroot
            /\ root' = newroot
            /\ \A e \in 1..Len(elems) : e \in Reachable(elems', root')]_vars

C25_Witness ==
    /\ fix_broken /\ err = "none" /\ op.name = "start"
    /\ root = 3 /\ elems[3].tag = "document" /\ elems[3].children = <<1, 2>>
    /\ elems[1].tag = "ul" /\ elems[2].tag = "li"

\* the call that ends in the primed state is a start, an end, or a comment,
\* declaration or instruction that is inserted
Inserted == op'.name \in {"comment", "declaration", "pi"} /\ Len(elems') > Len(elems)
FlushEvent == op'.name \in {"start", "end", "startend"} \/ Inserted

\* the pending data goes to the text of the element whose start was the last
\* such event, or to the tail of the element whose end or insertion was; the
\* field had never been assigned, and no other field of any element changes
PendingAssigned ==
    /\ last = 0 => elems = <<>>
    /\ last # 0 =>
        IF tail
        THEN elems[last].tail = None /\ elems'[last].tail = Str(Join(text))
        ELSE elems[last].text = None /\ elems'[last].text = Str(Join(text))
    /\ \A e \in 1..Len(elems) :
        /\ (e # last \/ ~tail) => elems'[e].tail = elems[e].tail
        /\ (e # last \/ tail) => elems'[e].text = elems[e].text

\* which element the next data goes to, after each kind of event
NextTarget ==
    LET new == Len(elems') IN
    /\ op'.name = "start" =>
        last' = new /\ ~tail' /\ Len(elems') = Len(elems) + 1
        /\ elems'[new].text = None /\ elems'[new].tail = None
    /\ op'.name = "startend" =>
        last' = new /\ tail' /\ Len(elems') = Len(elems) + 1
        /\ elems'[new].text = Str(<<>>) /\ elems'[new].tail = None
    /\ op'.name = "end" =>
        last' = Top(Self) /\ tail' /\ Len(elems') = Len(elems)
        /\ elems[Top(Self)].tag = op'.tag
    /\ Inserted =>
        last' = new /\ tail' /\ Len(elems') = Len(elems) + 1
        /\ elems'[new].tail = None

\* C28: in strict mode, in a run without an exception, the data received
\* between two events that are a start, an end or an inserted inline node is
\* kept pending in order, and at the second event all of it becomes the text
\* of the element the first event started, or the tail of the element the
\* first event ended or inserted; no other text or tail changes, and a call
\* that is none of these events changes no element
C28_StrictTextAndTail ==
    [][(~fix_broken /\ err' = "none") =>
        /\ op'.name = "data" =>
            /\ text' = Append(text, Chunk(ndata + 1))
            /\ UNCHANGED <<elems, last, tail>>
        /\ FlushEvent => (text' = <<>> /\ PendingAssigned /\ NextTarget)
        /\ (op'.name # "data" /\ ~FlushEvent) => UNCHANGED <<elems, last, tail, text>>]_vars

C28_Witness ==
    /\ ~fix_broken /\ err = "none" /\ op.name = "end"
    /\ Len(elems) = 2 /\ tree = <<>>
    /\ elems[2].text = Str(<<"a">>) /\ elems[2].tail = Str(<<"b">>)

\* the call that ends in the primed state runs _flush first
Flushes ==
    \/ op'.name \in {"start", "startend"}
    \/ op'.name = "end" /\ tree # <<>>
    \/ op'.name = "comment" /\ insert_comments
    \/ op'.name = "declaration" /\ insert_declares /\ root # 0
    \/ op'.name = "pi" /\ insert_pis

\* the field _flush assigns to: the tail of self.last, or its text
Target(es) == IF tail THEN es[last].tail ELSE es[last].text

\* C29: a flush whose target field holds text that is not empty raises
\* BuilderError in strict mode and leaves every element as it was; in lenient
\* mode the field becomes its old text followed by the pending text, once
C29_FlushOnAssignedField ==
    [][(Flushes /\ last # 0 /\ Truthy(Target(elems))) =>
        IF fix_broken
        THEN err' = "none" /\ Target(elems') = Str(Target(elems).s \o Join(text))
        ELSE err' = "BuilderError" /\ elems' = elems]_vars

C29_Witness ==
    /\ fix_broken /\ err = "none" /\ op.name = "start"
    /\ elems[1].text = Str(<<"r", "a", "b">>)

C29_WitnessStrict ==
    /\ ~fix_broken /\ err = "BuilderError" /\ op.name = "start"
    /\ elems[1].text = Str(<<"r">>) /\ text = <<<<"a">>>>

\* the insert_* switch of the event that ends in the primed state
SwitchOn ==
    \/ op'.name = "comment" /\ insert_comments
    \/ op'.name = "declaration" /\ insert_declares
    \/ op'.name = "pi" /\ insert_pis

\* the class of the special node of each event
SpecialOf(name) ==
    IF name = "comment" THEN "Comment"
    ELSE IF name = "declaration" THEN "Declaration" ELSE "ProcessingInstruction"

\* C30: a comment, declaration or processing-instruction event whose switch
\* is on appends exactly one special node, as the last child of the innermost
\* open element, or as the root when no element is open; one whose switch is
\* off changes nothing of the tree
C30_InlineAppendsOne ==
    [][op'.name \in {"comment", "declaration", "pi"} =>
        IF SwitchOn
        THEN LET new == Len(elems) + 1 IN
             /\ err' = "none"
             /\ Len(elems') = new
             /\ elems'[new].tag = SpecialOf(op'.name)
             /\ elems'[new].children = <<>>
             /\ IF tree # <<>>
                THEN /\ elems'[Top(Self)].children = Append(elems[Top(Self)].children, new)
                     /\ root' = root
                ELSE root' = new
        ELSE UNCHANGED <<elems, root, tree, last, text, tail>>]_vars

(***************************************************************************)
(* Properties of the parser: attributes and encodings                      *)
(***************************************************************************)
\* the parser takes a Result in the step: token is its kind
Takes(token) ==
    /\ lop' = "parser_next"
    /\ lexer'.err = "none"
    /\ ~IsNone(Result(lexer'))
    /\ lexer'.token = token

\* the value of key k in the dictionary d
DictGet(d, k) == d[CHOOSE i \in 1..Len(d) : d[i][1] = k][2]
DictKeys(d) == {d[i][1] : i \in 1..Len(d)}

\* the start tag the parser is in ends in the step, and start is called
StartTagEnds ==
    /\ parser.at = "attrs" /\ lop' = "parser_next" /\ lexer'.err = "none"
    /\ IsNone(Result(lexer')) \/ lexer'.token \in {TAG_END, TAG_CLOSE}
    /\ perr'.kind = "none"

\* C26: in a start tag, an ATTR_VALUE token gives its value to the name read
\* last among those that have none yet, which then has one; when the tag
\* ends, every name still without a value has the value "true", and every
\* other the value it was given; the lexer gives an ATTR_VALUE token only
\* right after an ATTR_NAME token, so a value always finds a name
C26_AttributePairing ==
    [][/\ Takes(ATTR_VALUE) =>
            LET name == parser.incomplete[Len(parser.incomplete)]
                d == Decoded(lexer'.value, parser.encoding)
                u == Unescaped(d.v)
            IN  /\ lexer.last_token = ATTR_NAME
                /\ parser.at = "attrs" /\ parser.incomplete # <<>>
                /\ perr'.kind # "IndexError"
                /\ (d.err = "none" /\ u.err = "none") =>
                    /\ perr'.kind = "none"
                    /\ parser'.incomplete = DropLast(parser.incomplete, 1)
                    /\ DictGet(parser'.attributes, name) = u.v
                    /\ DictKeys(parser'.attributes) = DictKeys(parser.attributes) \cup {name}
                    /\ \A k \in DictKeys(parser.attributes) \ {name} :
                        DictGet(parser'.attributes, k) = DictGet(parser.attributes, k)
       /\ StartTagEnds =>
            LET attrib == elems'[Len(elems')].attrib IN
            /\ Len(elems') = Len(elems) + 1
            /\ DictKeys(attrib) = DictKeys(parser.attributes)
                                    \cup {parser.incomplete[i] : i \in 1..Len(parser.incomplete)}
            /\ \A k \in DictKeys(attrib) :
                DictGet(attrib, k) =
                    IF \E i \in 1..Len(parser.incomplete) : parser.incomplete[i] = k
                    THEN <<"t", "r", "u", "e">>
                    ELSE DictGet(parser.attributes, k)]_vars

C26_Witness ==
    /\ lop = "parser_close" /\ perr.kind = "none"
    /\ lexer.source = <<"<", "p", "=", "v", " ", "a", " ", "b", "=", "v", "/", ">">>
    /\ elems[1].attrib = << <<<<"a", "b">>, <<"v">>>>, <<<<"=", "v">>, <<"t", "r", "u", "e">>>> >>

\* the encodings an instruction names in the documents of the model: what
\* follows encoding= up to a space or the end, without its quotes
Carried(v) ==
    {StripQuotes(SubSeq(v, i + 9, j)) : <<i, j>> \in
        {<<i, j>> \in (1..Len(v)) \X (1..Len(v)) :
            /\ i + 9 <= j
            /\ SubSeq(v, i, i + 8) = <<"e", "n", "c", "o", "d", "i", "n", "g", "=">>
            /\ \A k \in (i + 9)..j : v[k] # " "
            /\ j = Len(v) \/ v[j + 1] = " "}}

\* the decoded value of an INSTRUCTION token has the target xml
TargetXml(v) == StartsWith(v, <<"x", "m", "l", " ">>)

\* C27: every token the parser takes is decoded with the encoding the parser
\* has then: a value that encoding cannot decode ends the parse with the
\* decoder's exception, and otherwise the decoded value is what reaches the
\* tag, the attribute names and the builder; the encoding changes only at an
\* instruction whose target is xml and that carries encoding=E, and it is E
\* from then on
C27_TokensDecodedWithEncoding ==
    [][(lop' = "parser_next" /\ lexer'.err = "none" /\ ~IsNone(Result(lexer'))
        /\ (parser.at = "next" \/ (parser.at = "attrs" /\ lexer'.token # TAG_END))) =>
        LET d == Decoded(lexer'.value, parser.encoding) IN
        /\ d.err # "none" => perr'.kind = d.err
        /\ (d.err = "none" /\ parser.at = "next" /\ lexer'.token = TAG_START) =>
            parser'.tag = d.v
        /\ (d.err = "none" /\ parser.at = "next" /\ lexer'.token = TEXT) =>
            text' = Append(text, d.v)
        /\ (d.err = "none" /\ parser.at = "attrs" /\ lexer'.token = ATTR_NAME) =>
            parser'.incomplete = Append(parser.incomplete, d.v)
        /\ parser'.encoding # parser.encoding =>
            /\ lexer'.token = INSTRUCTION /\ parser.at = "next" /\ d.err = "none"
            /\ TargetXml(d.v)
            /\ parser'.encoding \in Carried(d.v)
        /\ (lexer'.token = INSTRUCTION /\ parser.at = "next" /\ d.err = "none"
            /\ TargetXml(d.v)) =>
            \A E \in Carried(d.v) : parser'.encoding = E]_vars

C27_Witness ==
    /\ lop = "parser_next" /\ perr.kind = "none"
    /\ parser.encoding = <<"l", "a", "t", "i", "n", "1">>
    /\ lexer.token = TEXT /\ lexer.value = <<"0xE9">>
    /\ text = <<<<"chr(233)">>>>

(***************************************************************************)
(* The serializer (pyxml/etree.py) and the html functions (pyxml/html)     *)
(***************************************************************************)
\* HTML_EMPTY of pyxml/html/parser.py
HTML_EMPTY ==
    {<<"a", "r", "e", "a">>,
     <<"b", "a", "s", "e">>,
     <<"b", "a", "s", "e", "f", "o", "n", "t">>,
     <<"b", "r">>,
     <<"c", "o", "l">>,
     <<"e", "m", "b", "e", "d">>,
     <<"f", "r", "a", "m", "e">>,
     <<"h", "r">>,
     <<"i", "m", "g">>,
     <<"i", "n", "p", "u", "t">>,
     <<"i", "s", "i", "n", "d", "e", "x">>,
     <<"l", "i", "n", "k">>,
     <<"m", "e", "t", "a">>,
     <<"p", "a", "r", "a", "m">>,
     <<"s", "o", "u", "r", "c", "e">>,
     <<"t", "r", "a", "c", "k">>,
     <<"w", "b", "r">>}

\* `x or ''` of an Optional[str]
OrEmpty(t) == IF t.some THEN t.s ELSE <<>>

\* quote
quote(s) == (<<"\"">> \o EscapeAttrib(s)) \o <<"\"">>

\* the loop of serialize_any over element.attrib.items(), from item i on: the
\* name, and the quoted value unless it is empty or 'true'
RECURSIVE WriteAttrib(_, _)
WriteAttrib(attrib, i) ==
    IF i > Len(attrib) THEN <<>>
    ELSE ((<<" ">> \o attrib[i][1])
            \o (IF attrib[i][2] # <<>> /\ attrib[i][2] # <<"t", "r", "u", "e">>
                THEN <<"=">> \o quote(attrib[i][2]) ELSE <<>>))
         \o WriteAttrib(attrib, i + 1)

\* serialize_any of an Element that is no _Special, as all that it writes:
\* the children go through serialize_xml whatever the method of the root is,
\* and the tail after an end tag is written only under a skip_end that is not
\* empty and does not hold the tag. The builder of html.fromstring inserts no
\* _Special, so the trees that are written here hold none
RECURSIVE serialize_any(_, _, _, _), serialize_xml(_, _, _), WriteChildren(_, _, _, _)
serialize_any(es, e, short_empty_elements, skip_end) ==
    IF short_empty_elements /\ es[e].children = <<>> /\ ~Truthy(es[e].text)
    THEN (((<<"<">> \o es[e].tag) \o WriteAttrib(es[e].attrib, 1)) \o <<"/", ">">>)
            \o EscapeCdata(OrEmpty(es[e].tail))
    ELSE ((((((<<"<">> \o es[e].tag) \o WriteAttrib(es[e].attrib, 1)) \o <<">">>)
            \o EscapeCdata(OrEmpty(es[e].text)))
            \o WriteChildren(es, es[e].children, 1, short_empty_elements))
            \o ((<<"<", "/">> \o es[e].tag) \o <<">">>))
            \o (IF skip_end # {} /\ es[e].tag \notin skip_end
                THEN EscapeCdata(OrEmpty(es[e].tail)) ELSE <<>>)

\* `for child in element: serialize_xml(write, child, short_empty_elements)`
WriteChildren(es, kids, i, short_empty_elements) ==
    IF i > Len(kids) THEN <<>>
    ELSE serialize_xml(es, kids[i], short_empty_elements)
            \o WriteChildren(es, kids, i + 1, short_empty_elements)

serialize_xml(es, e, short_empty_elements) ==
    serialize_any(es, e, short_empty_elements, {})

serialize_html(es, e, short_empty_elements) ==
    serialize_any(es, e, short_empty_elements, HTML_EMPTY)

\* str.encode('utf-8') of the characters of the model
RECURSIVE EncodeUtf8(_)
EncodeUtf8(s) ==
    IF s = <<>> THEN <<>>
    ELSE (IF Head(s) = "chr(233)" THEN <<"0xC3", "0xA9">> ELSE <<Head(s)>>)
            \o EncodeUtf8(Tail(s))

\* ElementTree(element).write(data, method=method) with the defaults of its
\* other parameters: encoding utf-8, no xml_declaration, short_empty_elements
\* True; what data holds then
Write(es, e, method) ==
    IF method = "html" THEN EncodeUtf8(serialize_html(es, e, TRUE))
    ELSE EncodeUtf8(<<"<", "?", "x", "m", "l", " ", "v", "e", "r", "s", "i", "o", "n",
                      "=", "'", "1", ".", "0", "'", " ", "e", "n", "c", "o", "d", "i",
                      "n", "g", "=", "'", "u", "t", "f", "-", "8", "'", "?", ">", "\n">>
                    \o serialize_xml(es, e, TRUE))

(***************************************************************************)
(* html.fromstring, html.tostring and html.fromstring again, as            *)
(* HtmlTests.parse_content does them                                       *)
(***************************************************************************)
SCRIPT == <<"s", "c", "r", "i", "p", "t">>
STYLE == <<"s", "t", "y", "l", "e">>

\* start tags, end tags, a text, and an element with a text
HtmlPieces ==
    {<<"<", "p", ">">>, <<"<", "/", "p", ">">>, <<"u">>,
     <<"<", "p", ">", "u", "<", "/", "p", ">">>,
     (<<"<">> \o SCRIPT) \o <<">">>, (<<"<", "/">> \o SCRIPT) \o <<">">>,
     (<<"<">> \o STYLE) \o <<">">>, (<<"<", "/">> \o STYLE) \o <<">">>}
HtmlDocs == {Join(body) : body \in Bodies(HtmlPieces, MaxPieces)}

\* the parsers a caller of html.fromstring may give: none, HTMLTreeParser(),
\* or Parser(target=TreeBuilder(root=Element('document')), fix_broken=True),
\* made anew for each call
Givens == {"none", "HTMLTreeParser", "Parser"}

\* a str is about to be given to html.fromstring
InitHtml ==
    /\ content \in HtmlDocs
    /\ given \in Givens
    /\ plain = <<>> /\ escaped = <<>> /\ unescaped = [err |-> "none", v |-> <<>>]
    /\ first = [elems |-> <<>>, root |-> 0] /\ output = <<>>
    /\ sop = "init"
    /\ BuilderIdle /\ ElementIdle /\ ReaderIdle /\ LexerIdle /\ XPathIdle /\ SourceIdle

\* TreeBuilder(root=Element('document')), as HTMLTreeParser.__init__ and the
\* caller's Parser make it; fix_broken is the builder's switch
HtmlBuilder(fix) ==
    /\ elems' = <<NewElement(DOCUMENT)>>
    /\ root' = 1 /\ last' = 1 /\ tree' = <<1>> /\ final' = 1
    /\ text' = <<>> /\ tail' = FALSE
    /\ fix_broken' = fix
    /\ insert_comments' = FALSE /\ insert_declares' = FALSE /\ insert_pis' = FALSE
    /\ err' = "none" /\ ret' = 0
    /\ UNCHANGED <<op, ndata, scenario>>

\* html.fromstring(text, parser, fix_broken=True) up to the loop of
\* BaseParser.close: text is content at first and then what tostring
\* returned. With no parser it calls HTMLTreeParser(fix_broken=fix_broken),
\* whose __init__ takes no fix_broken; HTMLTreeParser.close calls self.parse,
\* which no class defines; write_parser encodes a str and feeds the bytes
fromstring ==
    /\ sop \in {"init", "tostring"}
    /\ IF given = "none"
       THEN /\ perr' = OtherError("TypeError")
            /\ UNCHANGED <<lexer, results, parser, lop>>
            /\ UNCHANGED bvars
       ELSE /\ HtmlBuilder(given = "Parser")
            /\ lexer' = NewLexer(IF sop = "init" THEN EncodeUtf8(content) ELSE output)
            /\ results' = <<>>
            /\ parser' = NewParser
            /\ perr' = (IF given = "HTMLTreeParser" THEN OtherError("AttributeError")
                        ELSE NoError)
            /\ lop' = (IF given = "HTMLTreeParser" THEN "close" ELSE "feed")
    /\ sop' = (IF sop = "init" THEN "fromstring" ELSE "reparse")
    /\ UNCHANGED <<plain, escaped, unescaped, first, output, content, given>>
    /\ UNCHANGED <<evars, rvars, xvars, pvars>>

\* html.tostring(root) of the element the first html.fromstring returned
tostring ==
    /\ sop = "fromstring" /\ lop = "parser_close" /\ perr.kind = "none"
    /\ output' = Write(elems, ret, "html")
    /\ first' = [elems |-> elems, root |-> ret]
    /\ sop' = "tostring"
    /\ UNCHANGED <<plain, escaped, unescaped, content, given>>
    /\ UNCHANGED <<bvars, evars, rvars, lvars, xvars, pvars>>

\* etree.tostring(root) of the same element: the method is xml
xml_tostring ==
    /\ sop = "fromstring" /\ lop = "parser_close" /\ perr.kind = "none"
    /\ output' = Write(elems, ret, "xml")
    /\ first' = [elems |-> elems, root |-> ret]
    /\ sop' = "xml_tostring"
    /\ UNCHANGED <<plain, escaped, unescaped, content, given>>
    /\ UNCHANGED <<bvars, evars, rvars, lvars, xvars, pvars>>

NextHtml ==
    \/ fromstring
    \/ parser_next
    \/ parser_close
    \/ tostring
    \/ xml_tostring

SpecHtml == InitHtml /\ [][NextHtml]_vars

\* [(elem.tag, elem.text, elem.tail) for elem in root.iter()]
Triples(es, e) ==
    [i \in 1..Len(Iter(es, e)) |->
        <<es[Iter(es, e)[i]].tag, es[Iter(es, e)[i]].text, es[Iter(es, e)[i]].tail>>]

\* C22: html.fromstring with fix_broken = true gives a tree, and the tree
\* html.fromstring gives for what html.tostring wrote of it has the same
\* (tag, text, tail) for every element, in the order of iter()
C22_HtmlRoundTrip ==
    /\ sop \in {"fromstring", "reparse"} =>
        perr.kind \notin {"TypeError", "AttributeError"}
    /\ (sop = "reparse" /\ lop = "parser_close" /\ perr.kind = "none") =>
        Triples(elems, ret) = Triples(first.elems, first.root)

\* the index of the first > of s from s[i] on, 0 when there is none
RECURSIVE TagEndFrom(_, _)
TagEndFrom(s, i) ==
    IF i > Len(s) THEN 0 ELSE IF s[i] = ">" THEN i ELSE TagEndFrom(s, i + 1)

\* s has the short form of an element of tag `tag` at s[i]: <tag, then the
\* attributes if any, then />
ShortFormAt(s, i, tag) ==
    /\ i + Len(tag) + 1 <= Len(s)
    /\ SubSeq(s, i, i + Len(tag)) = <<"<">> \o tag
    /\ s[i + Len(tag) + 1] \in {" ", "/"}
    /\ TagEndFrom(s, i) # 0
    /\ s[TagEndFrom(s, i) - 1] = "/"

\* C24: what html.tostring returns has no short form <script .../> and no
\* short form <style .../>
C24_NoShortScriptOrStyle ==
    sop = "tostring" =>
        \A i \in 1..Len(output) :
            ~ShortFormAt(output, i, SCRIPT) /\ ~ShortFormAt(output, i, STYLE)

(***************************************************************************)
(* Properties of the tree builder: close, the stack, the pending text      *)
(***************************************************************************)
\* C31: in lenient mode close() on a builder that has a root raises nothing,
\* leaves final elements open and returns the root, whether the builder was
\* constructed with a root or not
C31_LenientCloseReturnsRoot ==
    [][(op'.name = "close" /\ fix_broken /\ root # 0)
       => /\ err' = "none"
          /\ ret' = root
          /\ Len(tree') = final
          /\ tree' = SubSeq(tree, 1, final)]_vars

(***************************************************************************)
(* The sources of a parser: BaseParser.set_stream, feed, readfrom and the  *)
(* start of close (pyxml/parser.py)                                        *)
(***************************************************************************)
\* calls on one parser before its close()
MaxCalls == 3

\* the bytes a call is given: an iterator of bytes, chunks that are fed, and
\* the content of a file
StreamBytes == {<<"s">>}
FedBytes == {<<>>, <<"a">>, <<"b", "c">>}
FileBytes == {<<"f", "g">>}
\* the files a caller gives to readfrom: a BytesIO or another binary file,
\* at its start or after a read of one byte
FileKinds == {"BytesIO", "file"}
FilePositions == {0, 1}

\* Parser.__post_init__: `self.stream = None` and `self.buffer = None`
InitSource ==
    /\ pstream = [set |-> FALSE, bytes |-> <<>>]
    /\ pbuffer = [kind |-> "None"]
    /\ accepted = <<>> /\ parsed = <<>> /\ srcerr = "none" /\ pop = "init"
    /\ BuilderIdle /\ ElementIdle /\ ReaderIdle /\ LexerIdle /\ XPathIdle /\ SerializerIdle

\* the parser takes calls: it has not raised and close() was not called
Open == srcerr = "none" /\ pop # "close" /\ Len(accepted) < MaxCalls

\* the call returned: it is recorded with the bytes it was given
SourceReturned(name, bytes) ==
    /\ accepted' = Append(accepted, <<name, bytes>>)
    /\ srcerr' = "none"
    /\ pop' = name

\* the call raised: nothing was assigned
SourceRaised(name, kind) ==
    /\ srcerr' = kind
    /\ pop' = name
    /\ UNCHANGED <<pstream, pbuffer, accepted, parsed>>

\* BytesIO.write(data) at the position of the buffer: the bytes there are
\* overwritten, the position moves past what was written
BytesWrite(buf, chunk) ==
    [buf EXCEPT !.data = (SubSeq(@, 1, buf.pos) \o chunk)
                            \o SubSeq(@, buf.pos + Len(chunk) + 1, Len(@)),
                !.pos = @ + Len(chunk)]

\* BaseParser.set_stream(stream)
set_stream ==
    /\ Open
    /\ \E bytes \in StreamBytes :
        IF pstream.set \/ pbuffer.kind # "None"
        THEN SourceRaised("set_stream", "RuntimeError")
        ELSE /\ pstream' = [set |-> TRUE, bytes |-> bytes]
             /\ SourceReturned("set_stream", bytes)
             /\ UNCHANGED <<pbuffer, parsed>>
    /\ UNCHANGED <<bvars, evars, rvars, lvars, xvars, svars>>

\* BaseParser.feed(data): `not self.buffer` holds of None alone, a BytesIO
\* and a file are true; isinstance(self.buffer, BytesIO) holds of the buffer
\* feed made and of a BytesIO that readfrom was given
feed ==
    /\ Open
    /\ \E chunk \in FedBytes :
        IF pstream.set THEN SourceRaised("feed", "RuntimeError")
        ELSE IF pbuffer.kind = "None"
        THEN /\ pbuffer' = BytesWrite([kind |-> "BytesIO", data |-> <<>>, pos |-> 0], chunk)
             /\ SourceReturned("feed", chunk)
             /\ UNCHANGED <<pstream, parsed>>
        ELSE IF pbuffer.kind # "BytesIO" THEN SourceRaised("feed", "RuntimeError")
        ELSE /\ pbuffer' = BytesWrite(pbuffer, chunk)
             /\ SourceReturned("feed", chunk)
             /\ UNCHANGED <<pstream, parsed>>
    /\ UNCHANGED <<bvars, evars, rvars, lvars, xvars, svars>>

\* BaseParser.readfrom(file)
readfrom ==
    /\ Open
    /\ \E bytes \in FileBytes, kind \in FileKinds, at \in FilePositions :
        IF pstream.set THEN SourceRaised("readfrom", "RuntimeError")
        ELSE IF pbuffer.kind # "None" /\ pbuffer.kind # "BytesIO"
        THEN SourceRaised("readfrom", "RuntimeError")
        ELSE IF pbuffer.kind = "BytesIO" /\ pbuffer.pos # 0
        THEN SourceRaised("readfrom", "RuntimeError")
        ELSE /\ pbuffer' = [kind |-> kind, data |-> bytes, pos |-> at]
             /\ SourceReturned("readfrom", bytes)
             /\ UNCHANGED <<pstream, parsed>>
    /\ UNCHANGED <<bvars, evars, rvars, lvars, xvars, svars>>

\* BaseParser.close up to `self.lexer = Lexer(self.stream)`: without a
\* stream the buffer is read from its start
close_source ==
    /\ srcerr = "none" /\ pop # "close"
    /\ IF pstream.set
       THEN /\ parsed' = pstream.bytes
            /\ srcerr' = "none"
            /\ UNCHANGED <<pstream, pbuffer>>
       ELSE IF pbuffer.kind = "None"
       THEN /\ srcerr' = "RuntimeError"
            /\ UNCHANGED <<pstream, pbuffer, parsed>>
       ELSE /\ pbuffer' = [pbuffer EXCEPT !.pos = Len(pbuffer.data)]
            /\ pstream' = [set |-> TRUE, bytes |-> pbuffer.data]
            /\ parsed' = pbuffer.data
            /\ srcerr' = "none"
    /\ pop' = "close"
    /\ UNCHANGED accepted
    /\ UNCHANGED <<bvars, evars, rvars, lvars, xvars, svars>>

NextSource ==
    \/ set_stream
    \/ feed
    \/ readfrom
    \/ close_source

SpecSource == InitSource /\ [][NextSource]_vars

\* the calls before this one that returned and gave the parser a source: a
\* feed of no bytes gives none
Sourced == SelectSeq(accepted, LAMBDA c : c[1] # "feed" \/ c[2] # <<>>)
WasCalled(name) == \E i \in 1..Len(accepted) : accepted[i][1] = name

\* the bytes of the calls that returned, in the order of the calls
RECURSIVE BytesOf(_)
BytesOf(cs) == IF cs = <<>> THEN <<>> ELSE Head(cs)[2] \o BytesOf(Tail(cs))

\* C32: set_stream raises when a stream or a buffer is attached; feed raises
\* after set_stream or readfrom; readfrom raises after set_stream, after a
\* readfrom and after a feed of some bytes; the calls that returned are then
\* of one kind, a set_stream or a readfrom alone, and close() parses their
\* bytes, all of them and nothing else, and raises when there is no source
C32_OneSource ==
    [][/\ (pop' = "set_stream" /\ (pstream.set \/ pbuffer.kind # "None"))
            => srcerr' = "RuntimeError"
       /\ (pop' = "feed" /\ (WasCalled("set_stream") \/ WasCalled("readfrom")))
            => srcerr' = "RuntimeError"
       /\ (pop' = "readfrom" /\ Sourced # <<>>)
            => srcerr' = "RuntimeError"
       /\ pop' = "close" =>
            IF pstream.set \/ pbuffer.kind # "None"
            THEN /\ srcerr' = "none"
                 /\ parsed' = BytesOf(accepted)
                 /\ \A i, j \in 1..Len(Sourced) : Sourced[i][1] = Sourced[j][1]
                 /\ (Sourced # <<>> /\ Sourced[1][1] # "feed") => Len(Sourced) = 1
            ELSE srcerr' = "RuntimeError"]_vars

(***************************************************************************)
(* Properties of the serializer: the tails                                 *)
(***************************************************************************)
\* the xml declaration ElementTree.write puts first in the xml method
XmlDeclaration ==
    <<"<", "?", "x", "m", "l", " ", "v", "e", "r", "s", "i", "o", "n",
      "=", "'", "1", ".", "0", "'", " ", "e", "n", "c", "o", "d", "i",
      "n", "g", "=", "'", "u", "t", "f", "-", "8", "'", "?", ">", "\n">>

\* an element and its descendants as markup, each followed by its tail: the
\* short form for an element without children and without text, the full
\* form for every other
RECURSIVE WithTails(_, _), ChildrenWithTails(_, _, _)
WithTails(es, e) ==
    (IF es[e].children = <<>> /\ ~Truthy(es[e].text)
     THEN ((<<"<">> \o es[e].tag) \o WriteAttrib(es[e].attrib, 1)) \o <<"/", ">">>
     ELSE (((((<<"<">> \o es[e].tag) \o WriteAttrib(es[e].attrib, 1)) \o <<">">>)
            \o EscapeCdata(OrEmpty(es[e].text)))
            \o ChildrenWithTails(es, es[e].children, 1))
            \o ((<<"<", "/">> \o es[e].tag) \o <<">">>))
    \o EscapeCdata(OrEmpty(es[e].tail))
ChildrenWithTails(es, kids, i) ==
    IF i > Len(kids) THEN <<>>
    ELSE WithTails(es, kids[i]) \o ChildrenWithTails(es, kids, i + 1)

\* C33: what the serializer writes has the tail of every element, escaped,
\* right after the element's end tag or short form, in the html method and
\* in the xml method
C33_TailsWritten ==
    /\ sop = "tostring" => output = EncodeUtf8(WithTails(first.elems, first.root))
    /\ sop = "xml_tostring" =>
        output = EncodeUtf8(XmlDeclaration \o WithTails(first.elems, first.root))

(***************************************************************************)
(* Properties of the filters of a path: and, or                            *)
(***************************************************************************)
\* the operands of the two filters: name() of an element is its tag, a str
\* that is not empty; text() is its text and the tails of its children
NameAndName ==
    <<"(", "n", "a", "m", "e", "(", ")", ")", " ", "a", "n", "d", " ",
      "(", "n", "a", "m", "e", "(", ")", ")">>
NameOrText ==
    <<"(", "n", "a", "m", "e", "(", ")", ")", " ", "o", "r", " ",
      "(", "t", "e", "x", "t", "(", ")", ")">>

\* C34: `a and b` is true exactly when both operands are truthy and `a or b`
\* exactly when at least one is, a str that is not empty being truthy: the
\* filter (name()) and (name()), and the filter (name()) or (text()), keep
\* every element they are applied to, the tag of an element being a str that
\* is not empty
C34_AndOrTruthy ==
    [][/\ FilterPass(NameAndName) => (xop' = "for" /\ elements' = elements)
       /\ FilterPass(NameOrText) => (xop' = "for" /\ elements' = elements)]_vars

(***************************************************************************)
(* The byte reader under the XML lexer: read_byte, unread and look_ahead   *)
(* (pyxml/_tokenize.py, pyxml/lexer.py)                                    *)
(***************************************************************************)
\* the bytes Lexer.look_ahead is asked to find
Finds == {"/", "a"}

\* Lexer.look_ahead on the reader r: the bytes it read are held when the
\* byte is found and are back in the buffer when it is not
LookedAhead(r, byte) ==
    LET l == LookAhead(r @@ [found |-> FALSE], byte) IN
    IF l.found THEN l ELSE [l EXCEPT !.consumed = r.consumed]

look_ahead ==
    /\ Reading
    /\ \E byte \in Finds :
        /\ Counted(LookedAhead(Reader, byte))
        /\ Read(LookedAhead(Reader, byte), "look_ahead")

NextScan ==
    \/ read_byte
    \/ unread
    \/ look_ahead

SpecScan == InitReader /\ [][NextScan]_vars

\* the bytes of the input before the next byte not yet read
Before == SubSeq(input, 1, Len(consumed))
\* the number of newlines of q
Newlines(q) == Cardinality({i \in 1..Len(q) : q[i] = NEWLINE})
\* the 0-based offset, within its line, of the byte that follows q
Column(q) ==
    IF Newlines(q) = 0 THEN Len(q)
    ELSE Len(q) - (CHOOSE i \in 1..Len(q) :
                      q[i] = NEWLINE /\ \A j \in (i + 1)..Len(q) : q[j] # NEWLINE)

\* C35: after any sequence of reads, pushbacks and look-aheads that raised
\* nothing, lineno is 1 plus the number of newlines before the next unread
\* byte of the input and position is the 0-based offset of that byte within
\* its line
C35_PositionIsSourceCoordinate ==
    rerr = "none" =>
        /\ lineno = 1 + Newlines(Before)
        /\ position = Column(Before)


(***************************************************************************)
(* Properties of the XML lexer: the end of the stream                      *)
(***************************************************************************)
\* C36: a comment or a declaration that the end of the stream cuts off, at
\* any byte from `<!` on, never raises: the first call of next returns the
\* partial COMMENT or DECLARATION and the call after it returns None
C36_UnterminatedNeverRaises ==
    lexer.source \in Unterminated =>
        /\ lexer.err = "none"
        /\ Len(results) <= 1
        /\ Len(results) = 1 => results[1].token \in {COMMENT, DECLARATION}
        /\ lop = "done" => Len(results) = 1


(***************************************************************************)
(* Properties of the tree builder: the stack of open elements              *)
(***************************************************************************)
\* C37: after every event of the builder, strict or lenient, the stack of
\* open elements is a path of the tree from its root down: the bottom of the
\* stack is the current root and each element of the stack is the parent of
\* the element directly above it
C37_StackIsPath ==
    /\ tree # <<>> => tree[1] = root
    /\ \A i \in 1..(Len(tree) - 1) : elems[tree[i + 1]].parent = tree[i]

\* the stack of a lenient builder after a second top-level element was put
\* under a synthetic root, and an element was opened in it
C37_Witness ==
    /\ fix_broken /\ err = "none"
    /\ Len(tree) = 2
    /\ elems[tree[1]].tag = "document"
    /\ elems[tree[1]].text = Str(<<"\n">>)
    /\ Len(elems[tree[1]].children) = 2


(***************************************************************************)
(* Properties of the tree builder: the pending text after a flush          *)
(***************************************************************************)
\* C38: every call that flushes and returns normally leaves the pending text
\* empty, for a strict and a lenient builder, with or without a root that has
\* text already
C38_FlushEmptiesPending ==
    [][(Flushes /\ err' = "none") => text' = <<>>]_vars


(***************************************************************************)
(* The XML lexer run to the end of any short input                         *)
(***************************************************************************)
MaxStream == 4
\* the bytes of the inputs: the markup bytes, a quote, a space and a letter
RunBytes == {"<", ">", "/", "=", "\"", " ", "a", "!", "-", "?"}

\* Lexer.__init__ over every input of at most MaxStream bytes, and over the
\* inputs of SpecLexer
InitRun ==
    /\ \E bytes \in LexerInputs \cup UNION {SeqsOfLen(RunBytes, n) : n \in 0..MaxStream} :
        lexer = NewLexer(bytes)
    /\ results = <<>>
    /\ perr = [kind |-> "none"]
    /\ parser = [at |-> "none"]
    /\ lop = "init"
    /\ BuilderIdle /\ ElementIdle /\ ReaderIdle /\ XPathIdle /\ SerializerIdle /\ SourceIdle

\* BaseLexer.iter, and the loop of Parser.close over Parser.next, call
\* lexer.next() again as long as it returns a Result
SpecRun == InitRun /\ [][NextLexer]_vars

\* C39: every call of next that returns a token takes at least one byte of
\* the input, net of what it pushes back; so the calls that return a token
\* are no more than the bytes taken, which are no more than the bytes of the
\* input, and the call after the last of them returns None or raises
C39_LexerTerminates ==
    [][/\ Len(results') > Len(results) => Taken(lexer') > Taken(lexer)
       /\ Len(results') <= Taken(lexer')
       /\ Taken(lexer') <= Len(lexer.source)]_vars

\* a run to the end of an input of MaxStream bytes in three tokens, the
\* first of which gave a byte back
C39_Witness ==
    /\ lop = "done" /\ lexer.err = "none"
    /\ lexer.source = <<"<", "a", ">", "a">>
    /\ Len(results) = 3
    /\ Taken(lexer) = 4


(***************************************************************************)
(* Properties of unescape: a reference is decoded once                     *)
(***************************************************************************)
\* C40: unescape decodes each reference of its input once, and what a
\* reference decodes to is not read as a part of another reference: so
\* unescape(escape_attrib(s)) is s for every text s, a text that is itself a
\* reference, such as &lt; and &#65;, among them
C40_DecodedOnce ==
    sop = "unescape_attrib" => unescaped = [err |-> "none", v |-> plain]

====
